---------------------------- MODULE Spec2Model ----------------------------
(***************************************************************************)
(* A model of gossipy: the Maelstrom node runtime (src/src/lib.rs) and the *)
(* workload handlers built on it (broadcast, g-counter, kafka-multi-node). *)
(*                                                                         *)
(* The module holds several specifications over one set of variables:      *)
(*   SpecRun / SpecRunFair   one process: Node::new and Node::run with its *)
(*                           threads, channels, stdin and stdout; the      *)
(*                           handler is any sequence of reply / send_to    *)
(*                           calls followed by Ok or Err.                  *)
(*   SpecBroadcast           one broadcast node and any input message.     *)
(*   SpecGossip /            three broadcast nodes, clients, and a network *)
(*   SpecGossipFair          that may lose and duplicate envelopes.        *)
(*   SpecGCounter, SpecKafka one g-counter / kafka node, its clients and   *)
(*                           a key-value service that may answer a request *)
(*                           with any result or error.                     *)
(*   SpecCounterStore        one g-counter node and a seq-kv that keeps    *)
(*                           its store.                                    *)
(*   SpecLogStore /          two kafka nodes and a lin-kv that keeps its   *)
(*   SpecLogSends /          store: sends and polls / overlapping sends /  *)
(*   SpecLogPolls /          polls of one or two keys / overlapping        *)
(*   SpecLogCommits          commits and lists of committed offsets; the   *)
(*                           ...Fair variants add that lin-kv serves every *)
(*                           request and every answer is handled.          *)
(*   SpecServe               one node of any of the three binaries.        *)
(* Each specification leaves the variables of the others at their initial  *)
(* value.                                                                  *)
(***************************************************************************)
EXTENDS Integers, Sequences, FiniteSets, TLC

(***************************************************************************)
(* Bounds of the model (not program constants).                            *)
(***************************************************************************)
\* lines that arrive on stdin in one run of the runtime model (init included)
MaxInput == 3
\* envelopes one process writes in one run of the runtime model
MaxEmit == 4
\* commands the timer thread produces in one run of the runtime model
MaxTicks == 2
\* the highest msg_id the node of a one-node handler model hands out
MaxMsgId == 6
\* broadcast requests the clients of the gossiping cluster issue
MaxBroadcasts == 1
\* client requests a g-counter or kafka node receives
MaxReqs == 2
\* envelopes the network of the gossiping cluster loses or delivers twice
MaxFaults == 1

(***************************************************************************)
(* Option<T>: None is the empty sequence, Some(x) the one-element one.     *)
(***************************************************************************)
None == << >>
Some(x) == << x >>

(***************************************************************************)
(* lib.rs: the Node primitives.  `inner` is the record behind the mutex:   *)
(* [id, node_ids, msg_id].                                                 *)
(***************************************************************************)
\* Node::new, lines 91-98: the Inner a node is constructed with
NewInner == [id |-> "", node_ids |-> << >>, msg_id |-> 1]

\* mutant of NewMsgId: the counter is read and not advanced
NewMsgIdStuck(in) == [id |-> in.msg_id, inner |-> in]

\* Node::new_msg_id: returns the counter and increments it, under the lock
NewMsgId(in) == [id |-> in.msg_id, inner |-> [in EXCEPT !.msg_id = @ + 1]]

\* Node::new, lines 107-111: record node_id and node_ids of the init message
RecordInit(in, line) == [in EXCEPT !.id = line.node_id, !.node_ids = line.node_ids]

\* mutant of InitOkEnv: the reply is addressed to the node itself
InitOkEnvToSelf(in, line) ==
    LET r == NewMsgId(in)
    IN [env |-> [src |-> r.inner.id, dest |-> r.inner.id, msg_id |-> Some(r.id),
                 in_reply_to |-> line.msg_id, payload |-> [type |-> "init_ok"]],
        inner |-> r.inner]

\* Node::new, lines 116-126: the init_ok envelope
InitOkEnv(in, line) ==
    LET r == NewMsgId(in)
    IN [env |-> [src |-> r.inner.id, dest |-> line.src, msg_id |-> Some(r.id),
                 in_reply_to |-> line.msg_id, payload |-> [type |-> "init_ok"]],
        inner |-> r.inner]

\* Node::reply: src = id, dest = incoming.src, fresh msg_id, in_reply_to = incoming id
Reply(in, incoming, payload) ==
    LET r == NewMsgId(in)
    IN [env |-> [src |-> r.inner.id, dest |-> incoming.src, msg_id |-> Some(r.id),
                 in_reply_to |-> incoming.msg_id, payload |-> payload],
        inner |-> r.inner]

\* Node::send_to: src = id, dest = dst, fresh msg_id, no in_reply_to; returns the id
SendTo(in, dst, payload) ==
    LET r == NewMsgId(in)
    IN [env |-> [src |-> r.inner.id, dest |-> dst, msg_id |-> Some(r.id),
                 in_reply_to |-> None, payload |-> payload],
        id |-> r.id,
        inner |-> r.inner]

(***************************************************************************)
(* The runtime model: one process.                                         *)
(***************************************************************************)
VARIABLES
    cfg,          \* which main(): "none" (kafka), "periodic" (broadcast), "oneshot" (g-counter)
    stdin,        \* lines that arrived on stdin and were not read yet
    stdinClosed,  \* stdin reached end of input
    nLines,       \* lines that arrived so far
    initLine,     \* Option: the first line Node::new read
    inner,        \* Inner behind Arc<Mutex<..>>
    pc,           \* position of each thread
    commandQ,     \* the command channel (mpsc, unbounded)
    eventQ,       \* the event channel (mpsc, unbounded)
    stdout,       \* the chunks written to stdout, in order
    wr,           \* per thread: the write of Node::send in progress
    handling,     \* per thread: the event whose handler invocation is in progress
    error,        \* run's local `error` (line 190) is Some
    herr,         \* a handler invocation returned Err
    eofSeen,      \* the input loop of run ended on end of input
    dispatched,   \* handler invocations started
    nTicks        \* commands the timer thread produced

rtVars == << cfg, stdin, stdinClosed, nLines, initLine, inner, pc, commandQ, eventQ,
             stdout, wr, handling, error, herr, eofSeen, dispatched, nTicks >>

\* the handlers of one or several nodes, each past its handshake, driven one
\* event at a time as the event thread drives them
VARIABLES
    wl,        \* the workload that runs: "runtime", "broadcast", "gossip",
               \* "g-counter", "kafka"
    node,      \* per node: its Inner
    up,        \* per node: "ok", or "panic" / "err" once its event thread has died
    net,       \* envelopes in flight
    lastIn,    \* Option: the event handled by the last step
    lastOut,   \* the envelopes written while handling it, in order
    lastAt,    \* the node that handled it
    nReq,      \* client requests issued so far
    reqs,      \* the client requests received whose answer waits for a service
    nCmd,      \* commands of a one-shot command thread handled so far
    kv,        \* the contents of the key-value service, where it is modelled
    sent,      \* the answers written to clients so far, each with the request
               \* it names, where they are recorded
    nLost,     \* envelopes the network dropped
    nDup,      \* envelopes the network delivered and kept
    topo,      \* the topology Maelstrom hands out
    handler    \* per node: the Handler that main() passed to run

clVars ==
    << wl, node, up, net, lastIn, lastOut, lastAt, nReq, reqs, nCmd, kv, sent, nLost, nDup, topo,
       handler >>

Threads == {"main", "timer", "cmd", "event"}
\* threads that run Node::send: main (init_ok) and whoever invokes the handler
Writers == {"main", "cmd", "event"}
\* threads that can be inside a handler invocation
HandlerThreads == {"cmd", "event"}

Configs == {"none", "periodic", "oneshot"}

\* the first line of stdin: init variants, an init_ok, something else
FirstLines ==
    { [kind |-> "init", src |-> "c0", msg_id |-> Some(1), node_id |-> "n1",
       node_ids |-> << "n1" >>],
      [kind |-> "init", src |-> "c1", msg_id |-> Some(7), node_id |-> "n2",
       node_ids |-> << "n1", "n2" >>],
      [kind |-> "init_ok", src |-> "c0", msg_id |-> Some(1)],
      [kind |-> "bad"] }

\* a later line: a message of the handler's payload type, or one that fails to parse
LaterLines(k) ==
    { [kind |-> "msg", src |-> "c1", msg_id |-> Some(10 + k)],
      [kind |-> "bad"] }

\* where the abstract handler sends with send_to
Dests == {"seq-kv"}

RtInit ==
    /\ cfg \in Configs
    /\ stdin = << >>
    /\ stdinClosed = FALSE
    /\ nLines = 0
    /\ initLine = None
    /\ inner = NewInner
    /\ pc = [t \in Threads |-> IF t = "main" THEN "new" ELSE "off"]
    /\ commandQ = << >>
    /\ eventQ = << >>
    /\ stdout = << >>
    /\ wr = [t \in Writers |-> None]
    /\ handling = [t \in HandlerThreads |-> None]
    /\ error = FALSE
    /\ herr = FALSE
    /\ eofSeen = FALSE
    /\ dispatched = 0
    /\ nTicks = 0

\* the process lives until main returns
Alive == pc["main"] # "ret_err"

\* the Receiver of the event channel lives in the event thread's closure
EventRxAlive == pc["event"] \in {"recv", "handle"}

---------------------------------------------------------------------------
\* the environment: a line arrives on stdin
StdinLine ==
    /\ ~stdinClosed
    /\ nLines < MaxInput
    /\ \E line \in (IF nLines = 0 THEN FirstLines ELSE LaterLines(nLines)) :
          stdin' = Append(stdin, line)
    /\ nLines' = nLines + 1
    /\ UNCHANGED << cfg, stdinClosed, initLine, inner, pc, commandQ, eventQ, stdout, wr,
                    handling, error, herr, eofSeen, dispatched, nTicks, clVars >>

\* the environment: stdin is closed
StdinClose ==
    /\ ~stdinClosed
    /\ stdinClosed' = TRUE
    /\ UNCHANGED << cfg, stdin, nLines, initLine, inner, pc, commandQ, eventQ, stdout, wr,
                    handling, error, herr, eofSeen, dispatched, nTicks, clVars >>

---------------------------------------------------------------------------
\* Node::send, line 272: serde_json::to_writer writes the JSON text
WriteJson(t) ==
    /\ Alive
    /\ wr[t] # None /\ wr[t][2] = "json"
    /\ stdout' = Append(stdout, [env |-> wr[t][1], part |-> "json", by |-> t])
    /\ wr' = [wr EXCEPT ![t] = << wr[t][1], "nl" >>]
    /\ UNCHANGED << cfg, stdin, stdinClosed, nLines, initLine, inner, pc, commandQ, eventQ,
                    handling, error, herr, eofSeen, dispatched, nTicks, clVars >>

\* Node::send, line 273: write_all(b"\n"); the call then returns to its caller
WriteNl(t) ==
    /\ Alive
    /\ wr[t] # None /\ wr[t][2] = "nl"
    /\ stdout' = Append(stdout, [env |-> wr[t][1], part |-> "nl", by |-> t])
    /\ wr' = [wr EXCEPT ![t] = None]
    /\ pc' = IF t = "main" THEN [pc EXCEPT !["main"] = "setup"] ELSE pc
    /\ UNCHANGED << cfg, stdin, stdinClosed, nLines, initLine, inner, commandQ, eventQ,
                    handling, error, herr, eofSeen, dispatched, nTicks, clVars >>

---------------------------------------------------------------------------
\* Node::new, lines 100-126: read one envelope, record the ids, build init_ok
NewReadInit ==
    /\ pc["main"] = "new"
    /\ stdin # << >>
    /\ LET line == Head(stdin)
       IN /\ stdin' = Tail(stdin)
          /\ initLine' = Some(line)
          /\ IF line.kind = "init"
             THEN LET r == InitOkEnv(RecordInit(inner, line), line)
                  IN /\ inner' = r.inner
                     /\ wr' = [wr EXCEPT !["main"] = << r.env, "json" >>]
                     /\ pc' = [pc EXCEPT !["main"] = "new_write"]
             ELSE \* InitOk: bail; anything else: the deserializer fails
                  /\ pc' = [pc EXCEPT !["main"] = "ret_err"]
                  /\ UNCHANGED << inner, wr >>
    /\ UNCHANGED << cfg, stdinClosed, nLines, commandQ, eventQ, stdout, handling, error,
                    herr, eofSeen, dispatched, nTicks, clVars >>

\* Node::new, line 103: stdin ends before any envelope
NewNoInit ==
    /\ pc["main"] = "new"
    /\ stdin = << >> /\ stdinClosed
    /\ pc' = [pc EXCEPT !["main"] = "ret_err"]
    /\ UNCHANGED << cfg, stdin, stdinClosed, nLines, initLine, inner, commandQ, eventQ,
                    stdout, wr, handling, error, herr, eofSeen, dispatched, nTicks, clVars >>

\* main() of the workload between Node::new and node.run: the command channel
\* is registered and the producer thread spawned (broadcast.rs 147-158,
\* g-counter.rs 195-203); kafka-multi-node.rs registers none
MainSetup ==
    /\ pc["main"] = "setup"
    /\ pc' = [pc EXCEPT !["main"] = "run",
                        !["timer"] = CASE cfg = "periodic" -> "tick"
                                       [] cfg = "oneshot" -> "once"
                                       [] OTHER -> "off"]
    /\ UNCHANGED << cfg, stdin, stdinClosed, nLines, initLine, inner, commandQ, eventQ,
                    stdout, wr, handling, error, herr, eofSeen, dispatched, nTicks, clVars >>

\* Node::run, lines 148-188: the channel is made, the forwarder (if a command
\* receiver is registered) and the event thread are spawned
RunSpawn ==
    /\ pc["main"] = "run"
    /\ pc' = [pc EXCEPT !["main"] = "read",
                        !["cmd"] = IF cfg = "none" THEN "off" ELSE "recv",
                        !["event"] = "recv"]
    /\ UNCHANGED << cfg, stdin, stdinClosed, nLines, initLine, inner, commandQ, eventQ,
                    stdout, wr, handling, error, herr, eofSeen, dispatched, nTicks, clVars >>

\* Node::run, lines 191-200: one round of the input loop
RunReadLine ==
    /\ pc["main"] = "read"
    /\ stdin # << >>
    /\ LET line == Head(stdin)
       IN /\ stdin' = Tail(stdin)
          /\ IF line.kind = "bad"
             THEN \* line 192: `?` leaves run at once
                  /\ pc' = [pc EXCEPT !["main"] = "ret_err"]
                  /\ UNCHANGED << eventQ, error >>
             ELSE IF EventRxAlive
                  THEN /\ eventQ' = Append(eventQ, [kind |-> "msg", src |-> line.src,
                                                    msg_id |-> line.msg_id])
                       /\ UNCHANGED << pc, error >>
                  ELSE \* the send fails: remember the error and leave the loop
                       /\ error' = TRUE
                       /\ pc' = [pc EXCEPT !["main"] = "join_cmd"]
                       /\ UNCHANGED eventQ
    /\ UNCHANGED << cfg, stdinClosed, nLines, initLine, inner, commandQ, stdout, wr,
                    handling, herr, eofSeen, dispatched, nTicks, clVars >>

\* Node::run, line 191: the iterator over stdin ends
RunReadEof ==
    /\ pc["main"] = "read"
    /\ stdin = << >> /\ stdinClosed
    /\ pc' = [pc EXCEPT !["main"] = "join_cmd"]
    /\ eofSeen' = TRUE
    /\ UNCHANGED << cfg, stdin, stdinClosed, nLines, initLine, inner, commandQ, eventQ,
                    stdout, wr, handling, error, herr, dispatched, nTicks, clVars >>

\* Node::run, lines 202-207: join the forwarder, if there is one; it only
\* ever ends with Err, which `?` returns
RunJoinCmd ==
    /\ pc["main"] = "join_cmd"
    /\ \/ /\ cfg = "none"
          /\ pc' = [pc EXCEPT !["main"] = "join_event"]
       \/ /\ cfg # "none"
          /\ pc["cmd"] = "done_err"
          /\ pc' = [pc EXCEPT !["main"] = "ret_err"]
    /\ UNCHANGED << cfg, stdin, stdinClosed, nLines, initLine, inner, commandQ, eventQ,
                    stdout, wr, handling, error, herr, eofSeen, dispatched, nTicks, clVars >>

\* Node::run, lines 208-211: join the event thread; it only ever ends with Err
RunJoinEvent ==
    /\ pc["main"] = "join_event"
    /\ pc["event"] = "done_err"
    /\ pc' = [pc EXCEPT !["main"] = "ret_err"]
    /\ UNCHANGED << cfg, stdin, stdinClosed, nLines, initLine, inner, commandQ, eventQ,
                    stdout, wr, handling, error, herr, eofSeen, dispatched, nTicks, clVars >>

---------------------------------------------------------------------------
\* broadcast.rs 153-157: sleep, then send SendGossip; the Receiver is kept
\* alive by the Node in main, so the send never fails
TimerTick ==
    /\ Alive
    /\ pc["timer"] = "tick"
    /\ nTicks < MaxTicks
    /\ commandQ' = Append(commandQ, "SendGossip")
    /\ nTicks' = nTicks + 1
    /\ UNCHANGED << cfg, stdin, stdinClosed, nLines, initLine, inner, pc, eventQ, stdout,
                    wr, handling, error, herr, eofSeen, dispatched, clVars >>

\* g-counter.rs 199-203: send InitStore once; the thread ends and drops tx
TimerOnce ==
    /\ Alive
    /\ pc["timer"] = "once"
    /\ commandQ' = Append(commandQ, "InitStore")
    /\ pc' = [pc EXCEPT !["timer"] = "done"]
    /\ UNCHANGED << cfg, stdin, stdinClosed, nLines, initLine, inner, eventQ, stdout, wr,
                    handling, error, herr, eofSeen, dispatched, nTicks, clVars >>

---------------------------------------------------------------------------
\* Node::run, lines 156-160: the forwarder receives a command; recv fails
\* once the queue is empty and every Sender is dropped
CmdRecv ==
    /\ Alive
    /\ pc["cmd"] = "recv"
    /\ \/ /\ commandQ # << >>
          /\ handling' = [handling EXCEPT !["cmd"] = Some([kind |-> "cmd", cmd |-> Head(commandQ)])]
          /\ commandQ' = Tail(commandQ)
          /\ pc' = [pc EXCEPT !["cmd"] = "fwd"]
       \/ /\ commandQ = << >>
          /\ pc["timer"] = "done"
          /\ pc' = [pc EXCEPT !["cmd"] = "done_err"]
          /\ UNCHANGED << commandQ, handling >>
    /\ UNCHANGED << cfg, stdin, stdinClosed, nLines, initLine, inner, eventQ, stdout, wr,
                    error, herr, eofSeen, dispatched, nTicks, clVars >>

\* mutant of CmdForward: the forwarder calls handle_command itself
CmdForwardDirect ==
    /\ Alive
    /\ pc["cmd"] = "fwd"
    /\ pc' = [pc EXCEPT !["cmd"] = "handle"]
    /\ dispatched' = dispatched + 1
    /\ UNCHANGED << cfg, stdin, stdinClosed, nLines, initLine, inner, commandQ, eventQ,
                    stdout, wr, handling, error, herr, eofSeen, nTicks, clVars >>

\* Node::run, lines 162-164: the forwarder puts the command on the event
\* channel; the send fails once the event thread has dropped the Receiver
CmdForward ==
    /\ Alive
    /\ pc["cmd"] = "fwd"
    /\ IF EventRxAlive
       THEN /\ eventQ' = Append(eventQ, handling["cmd"][1])
            /\ pc' = [pc EXCEPT !["cmd"] = "recv"]
       ELSE /\ pc' = [pc EXCEPT !["cmd"] = "done_err"]
            /\ UNCHANGED eventQ
    /\ handling' = [handling EXCEPT !["cmd"] = None]
    /\ UNCHANGED << cfg, stdin, stdinClosed, nLines, initLine, inner, commandQ, stdout, wr,
                    error, herr, eofSeen, dispatched, nTicks, clVars >>

---------------------------------------------------------------------------
\* Node::run, lines 172-183: the event thread takes the next event and calls
\* handle or handle_command.  (recv cannot fail: run keeps event_tx.)
EventRecv ==
    /\ Alive
    /\ pc["event"] = "recv"
    /\ eventQ # << >>
    /\ handling' = [handling EXCEPT !["event"] = Some(Head(eventQ))]
    /\ eventQ' = Tail(eventQ)
    /\ pc' = [pc EXCEPT !["event"] = "handle"]
    /\ dispatched' = dispatched + 1
    /\ UNCHANGED << cfg, stdin, stdinClosed, nLines, initLine, inner, commandQ, stdout, wr,
                    error, herr, eofSeen, nTicks, clVars >>

\* inside a handler: node.reply(msg, payload), up to the call of Node::send
HandlerReply(t) ==
    /\ Alive
    /\ pc[t] = "handle" /\ wr[t] = None
    /\ handling[t][1].kind = "msg"
    /\ inner.msg_id <= MaxEmit
    /\ LET r == Reply(inner, handling[t][1], [type |-> "reply"])
       IN /\ inner' = r.inner
          /\ wr' = [wr EXCEPT ![t] = << r.env, "json" >>]
    /\ UNCHANGED << cfg, stdin, stdinClosed, nLines, initLine, pc, commandQ, eventQ, stdout,
                    handling, error, herr, eofSeen, dispatched, nTicks, clVars >>

\* inside a handler: node.send_to(dst, payload), up to the call of Node::send
HandlerSendTo(t) ==
    /\ Alive
    /\ pc[t] = "handle" /\ wr[t] = None
    /\ inner.msg_id <= MaxEmit
    /\ \E dst \in Dests :
          LET r == SendTo(inner, dst, [type |-> "request"])
          IN /\ inner' = r.inner
             /\ wr' = [wr EXCEPT ![t] = << r.env, "json" >>]
    /\ UNCHANGED << cfg, stdin, stdinClosed, nLines, initLine, pc, commandQ, eventQ, stdout,
                    handling, error, herr, eofSeen, dispatched, nTicks, clVars >>

\* the handler returns Ok(()): the thread goes back to its loop
HandlerOk(t) ==
    /\ Alive
    /\ pc[t] = "handle" /\ wr[t] = None
    /\ pc' = [pc EXCEPT ![t] = "recv"]
    /\ handling' = [handling EXCEPT ![t] = None]
    /\ UNCHANGED << cfg, stdin, stdinClosed, nLines, initLine, inner, commandQ, eventQ,
                    stdout, wr, error, herr, eofSeen, dispatched, nTicks, clVars >>

\* the handler returns Err: `?` ends the thread, which drops what it owns
HandlerErr(t) ==
    /\ Alive
    /\ pc[t] = "handle" /\ wr[t] = None
    /\ pc' = [pc EXCEPT ![t] = "done_err"]
    /\ handling' = [handling EXCEPT ![t] = None]
    /\ herr' = TRUE
    /\ UNCHANGED << cfg, stdin, stdinClosed, nLines, initLine, inner, commandQ, eventQ,
                    stdout, wr, error, eofSeen, dispatched, nTicks, clVars >>

---------------------------------------------------------------------------
EnvStep == StdinLine \/ StdinClose

MainStep ==
    \/ NewReadInit \/ NewNoInit \/ MainSetup \/ RunSpawn
    \/ RunReadLine \/ RunReadEof \/ RunJoinCmd \/ RunJoinEvent
    \/ WriteJson("main") \/ WriteNl("main")

TimerStep == TimerTick \/ TimerOnce

CmdStep == CmdRecv \/ CmdForward

HandlerStep(t) ==
    \/ HandlerReply(t) \/ HandlerSendTo(t) \/ HandlerOk(t) \/ HandlerErr(t)
    \/ WriteJson(t) \/ WriteNl(t)

EventStep == EventRecv \/ \E t \in HandlerThreads : HandlerStep(t)

RtNext == EnvStep \/ MainStep \/ TimerStep \/ CmdStep \/ EventStep

\* the runtime variables while a cluster specification runs
RtIdle ==
    /\ cfg = "none"
    /\ stdin = << >>
    /\ stdinClosed = FALSE
    /\ nLines = 0
    /\ initLine = None
    /\ inner = NewInner
    /\ pc = [t \in Threads |-> "off"]
    /\ commandQ = << >>
    /\ eventQ = << >>
    /\ stdout = << >>
    /\ wr = [t \in Writers |-> None]
    /\ handling = [t \in HandlerThreads |-> None]
    /\ error = FALSE
    /\ herr = FALSE
    /\ eofSeen = FALSE
    /\ dispatched = 0
    /\ nTicks = 0

(***************************************************************************)
(* The cluster model: the handlers of one or several nodes, each past its  *)
(* handshake, driven one event at a time as the event thread drives them.  *)
(* An envelope a node writes for another node or for a KV service goes     *)
(* into `net`; one written for a client is only recorded in lastOut.       *)
(***************************************************************************)
\* the cluster variables while the runtime specification runs
ClIdle ==
    /\ wl = "runtime"
    /\ node = << >>
    /\ up = << >>
    /\ net = {}
    /\ lastIn = None
    /\ lastOut = << >>
    /\ lastAt = ""
    /\ nReq = 0
    /\ reqs = {}
    /\ nCmd = 0
    /\ kv = << >>
    /\ sent = {}
    /\ nLost = 0
    /\ nDup = 0
    /\ topo = << >>
    /\ handler = << >>

\* a node after its handshake: init_ok took msg_id 1
InnerAfterInit(n, ids) == [id |-> n, node_ids |-> ids, msg_id |-> 2]

\* the elements of a sequence
Range(q) == {q[i] : i \in 1..Len(q)}

\* HashMap::remove
MapRemove(f, k) == [x \in (DOMAIN f) \ {k} |-> f[x]]

\* HashMap::insert
MapInsert(f, k, v) == [x \in (DOMAIN f) \cup {k} |-> IF x = k THEN v ELSE f[x]]

\* a message as the codec hands it to the handler
Msg(src, dst, id, payload) ==
    [src |-> src, dest |-> dst, msg_id |-> id, in_reply_to |-> None, payload |-> payload]

(***************************************************************************)
(* broadcast.rs: BroadcastHandler.                                         *)
(***************************************************************************)
\* main, lines 135-145: empty state, others_know preallocated for node_ids
NewBroadcastHandler(ids) ==
    [messages |-> {}, topology |-> << >>, neighbours |-> << >>,
     others_know |-> [p \in Range(ids) |-> {}]]

\* what a handler invocation yields: the new handler state, the new Inner,
\* the envelopes written, and "ok", "err" (Err returned) or "panic"
Outcome(h, in, out, res) == [h |-> h, inner |-> in, out |-> out, res |-> res]

\* the match arms that fall through to node.reply(msg, reply), line 96
Replied(h, in, msg, payload) ==
    LET r == Reply(in, msg, payload)
    IN Outcome(h, r.inner, << r.env >>, "ok")

\* mutant of HandleGossip: values the peer was known to have are struck out
HandleGossipToggle(h, in, msg) ==
    LET have == msg.payload.have
        h1 == [h EXCEPT !.messages = @ \cup have]
    IN IF msg.src \notin DOMAIN h.others_know
       THEN Outcome(h1, in, << >>, "panic")
       ELSE Replied([h1 EXCEPT !.others_know[msg.src] = (@ \ have) \cup (have \ @)], in, msg,
                    [type |-> "gossip_ok", have |-> have])

\* handle, lines 57-67: Gossip
HandleGossip(h, in, msg) ==
    LET have == msg.payload.have
        h1 == [h EXCEPT !.messages = @ \cup have]
    IN IF msg.src \notin DOMAIN h.others_know
       THEN Outcome(h1, in, << >>, "panic")
       ELSE Replied([h1 EXCEPT !.others_know[msg.src] = @ \cup have], in, msg,
                    [type |-> "gossip_ok", have |-> have])

\* handle, lines 71-74: ReadOk
HandleReadOk(h, in, msg) ==
    Outcome([h EXCEPT !.others_know = MapInsert(@, msg.src, msg.payload.messages)],
            in, << >>, "ok")

\* handle, lines 75-84: Topology
HandleTopology(h, in, msg) ==
    LET t == msg.payload.topology
    IN IF in.id \notin DOMAIN t
       THEN Outcome([h EXCEPT !.topology = t], in, << >>, "panic")
       ELSE Replied([h EXCEPT !.topology = t, !.neighbours = t[in.id]], in, msg,
                    [type |-> "topology_ok"])

\* handle, lines 86-93: GossipOk
HandleGossipOk(h, in, msg) ==
    IF msg.src \notin DOMAIN h.others_know
    THEN Outcome(h, in, << >>, "panic")
    ELSE Outcome([h EXCEPT !.others_know[msg.src] = @ \cup msg.payload.have],
                 in, << >>, "ok")

\* BroadcastHandler::handle
BHandle(h, in, msg) ==
    CASE msg.payload.type = "broadcast" ->
            Replied([h EXCEPT !.messages = @ \cup {msg.payload.message}], in, msg,
                    [type |-> "broadcast_ok"])
      [] msg.payload.type = "gossip" -> HandleGossip(h, in, msg)
      [] msg.payload.type = "read" ->
            Replied(h, in, msg, [type |-> "read_ok", messages |-> h.messages])
      [] msg.payload.type = "read_ok" -> HandleReadOk(h, in, msg)
      [] msg.payload.type = "topology" -> HandleTopology(h, in, msg)
      [] msg.payload.type \in {"broadcast_ok", "topology_ok"} -> Outcome(h, in, << >>, "ok")
      [] msg.payload.type = "gossip_ok" -> HandleGossipOk(h, in, msg)

\* mutant of WeKnow: everything is sent, known to the neighbour or not
WeKnowAll(h, p) == h.messages

\* handle_command, lines 103-112: what the neighbour is not known to have
WeKnow(h, p) == IF p \in DOMAIN h.others_know THEN h.messages \ h.others_know[p] ELSE {}

\* handle_command, lines 100-122: the loop over the neighbours
RECURSIVE GossipLoop(_, _, _, _)
GossipLoop(h, in, nbrs, out) ==
    IF nbrs = << >>
    THEN Outcome(h, in, out, "ok")
    ELSE LET p == Head(nbrs)
         IN IF WeKnow(h, p) = {}
            THEN GossipLoop(h, in, Tail(nbrs), out)
            ELSE LET r == SendTo(in, p, [type |-> "gossip", have |-> WeKnow(h, p)])
                 IN GossipLoop(h, r.inner, Tail(nbrs), Append(out, r.env))

\* mutant of BHandleCommand: what is sent is counted as known by the neighbour
BHandleCommandOptimistic(h, in, cmd) ==
    LET r == GossipLoop(h, in, h.neighbours, << >>)
    IN [r EXCEPT !.h.others_know =
           [p \in DOMAIN @ |-> IF p \in Range(h.neighbours) THEN @[p] \cup h.messages ELSE @[p]]]

\* BroadcastHandler::handle_command (SendGossip is the only command)
BHandleCommand(h, in, cmd) == GossipLoop(h, in, h.neighbours, << >>)

(***************************************************************************)
(* g-counter.rs: GCounter.                                                 *)
(***************************************************************************)
SEQ_KV_SERVICE_ID == "seq-kv"
LIN_KV_SERVICE_ID == "lin-kv"
ERROR_KEY_DOES_NOT_EXIST == 20
ERROR_PRECONDITION_FAILED == 22
COUNTER_KEY == "g-counter"

\* GCounter::default()
NewGCounter == [kv_msg_ids |-> << >>, deltas |-> << >>]

\* handle, lines 68-77: Add
GHandleAdd(h, in, msg) ==
    LET rd == SendTo(in, SEQ_KV_SERVICE_ID, [type |-> "read", key |-> COUNTER_KEY])
        h1 == [h EXCEPT !.deltas = MapInsert(@, rd.id, msg.payload.delta)]
        rp == Reply(rd.inner, msg, [type |-> "add_ok"])
    IN Outcome(h1, rp.inner, << rd.env, rp.env >>, "ok")

\* handle, lines 78-105: Read; the value written is the clock's
GHandleRead(h, in, msg) ==
    LET wr1 == SendTo(in, SEQ_KV_SERVICE_ID,
                      [type |-> "write", key |-> "timestamp", value |-> "now"])
        rd == SendTo(wr1.inner, SEQ_KV_SERVICE_ID, [type |-> "read", key |-> COUNTER_KEY])
    IN IF msg.msg_id = None
       THEN Outcome(h, rd.inner, << wr1.env, rd.env >>, "panic")
       ELSE Outcome([h EXCEPT !.kv_msg_ids = MapInsert(@, rd.id, << msg.src, msg.msg_id[1] >>)],
                    rd.inner, << wr1.env, rd.env >>, "ok")

\* mutant of GHandleReadOk: the KV reply is answered as it came
GHandleReadOkEcho(h, in, msg) ==
    LET irt == msg.in_reply_to[1]
    IN IF msg.in_reply_to = None
       THEN Outcome(h, in, << >>, "panic")
       ELSE IF irt \in DOMAIN h.kv_msg_ids
       THEN Replied([h EXCEPT !.kv_msg_ids = MapRemove(@, irt)], in, msg,
                    [type |-> "read_ok", value |-> msg.payload.value])
       ELSE Outcome(h, in, << >>, "err")

\* handle, lines 106-138: ReadOk
GHandleReadOk(h, in, msg) ==
    LET irt == msg.in_reply_to[1]
    IN IF msg.in_reply_to = None
       THEN Outcome(h, in, << >>, "panic")
       ELSE IF irt \in DOMAIN h.kv_msg_ids
       THEN LET orig == h.kv_msg_ids[irt]
                fake_orig_msg == [msg EXCEPT !.src = orig[1], !.msg_id = Some(orig[2])]
            IN Replied([h EXCEPT !.kv_msg_ids = MapRemove(@, irt)], in, fake_orig_msg,
                       [type |-> "read_ok", value |-> msg.payload.value])
       ELSE IF irt \in DOMAIN h.deltas
       THEN LET delta == h.deltas[irt]
                cas == SendTo(in, SEQ_KV_SERVICE_ID,
                              [type |-> "cas", key |-> COUNTER_KEY,
                               from |-> msg.payload.value, to |-> msg.payload.value + delta,
                               create_if_not_exists |-> FALSE])
            IN Outcome([h EXCEPT !.deltas = MapInsert(MapRemove(@, irt), cas.id, delta)],
                       cas.inner, << cas.env >>, "ok")
       ELSE Outcome(h, in, << >>, "err")

\* handle, lines 139-144: CasOk
GHandleCasOk(h, in, msg) ==
    IF msg.in_reply_to = None
    THEN Outcome(h, in, << >>, "panic")
    ELSE Outcome([h EXCEPT !.deltas = MapRemove(@, msg.in_reply_to[1])], in, << >>, "ok")

\* handle, lines 145-164: Error
GHandleError(h, in, msg) ==
    IF msg.payload.code # ERROR_PRECONDITION_FAILED
    THEN Outcome(h, in, << >>, "ok")
    ELSE IF msg.in_reply_to = None
    THEN Outcome(h, in, << >>, "panic")
    ELSE IF msg.in_reply_to[1] \notin DOMAIN h.deltas
    THEN Outcome(h, in, << >>, "ok")
    ELSE LET irt == msg.in_reply_to[1]
             rd == SendTo(in, SEQ_KV_SERVICE_ID, [type |-> "read", key |-> COUNTER_KEY])
         IN Outcome([h EXCEPT !.deltas = MapInsert(MapRemove(@, irt), rd.id, h.deltas[irt])],
                    rd.inner, << rd.env >>, "ok")

\* GCounter::handle
GHandle(h, in, msg) ==
    CASE msg.payload.type = "add" -> GHandleAdd(h, in, msg)
      [] msg.payload.type = "read" -> GHandleRead(h, in, msg)
      [] msg.payload.type = "read_ok" -> GHandleReadOk(h, in, msg)
      [] msg.payload.type = "cas_ok" -> GHandleCasOk(h, in, msg)
      [] msg.payload.type = "error" -> GHandleError(h, in, msg)
      [] msg.payload.type \in {"add_ok", "write_ok"} -> Outcome(h, in, << >>, "ok")

\* GCounter::handle_command (InitStore is the only command)
GHandleCommand(h, in, cmd) ==
    LET cas == SendTo(in, SEQ_KV_SERVICE_ID,
                      [type |-> "cas", key |-> COUNTER_KEY, from |-> 0, to |-> 0,
                       create_if_not_exists |-> TRUE])
    IN Outcome(h, cas.inner, << cas.env >>, "ok")

(***************************************************************************)
(* kafka-multi-node.rs: KafkaLog.                                          *)
(***************************************************************************)
NUM_POLLED_MESSAGES == 3

\* KafkaLog::default()
NewKafkaLog ==
    [node |-> FALSE,
     send_msg_keys |-> << >>, offset_reads |-> << >>, offset_updates |-> << >>,
     poll_msg_keys |-> << >>, polled_messages |-> << >>,
     commit_msg_keys |-> << >>, committed_offset_reads |-> << >>,
     committed_offsets_written |-> << >>, list_committed_offsets |-> << >>]

\* the key formats, lines 677-687, and format!("{}-{}", src, msg_id)
logged_msg_key(key, offset) == << "entry", key, offset >>
offset_key(key) == << "offset", key >>
committed_offset_key(key) == << "committed-offset", key >>
RequestKey(src, id) == << src, id >>

\* send_to_lin_kv, lines 690-693
SendToLinKv(in, payload) == SendTo(in, LIN_KV_SERVICE_ID, payload)

\* KafkaLog::reply, lines 716-733: a reply to a made-up message that carries
\* the original sender and msg_id
KReply(in, orig_msg_src, orig_msg_id, payload) ==
    Reply(in,
          [src |-> orig_msg_src, dest |-> "", msg_id |-> Some(orig_msg_id),
           in_reply_to |-> None, payload |-> [type |-> "write_ok"]],
          payload)

\* what a handler invocation that ends in self.reply(..) yields
KReplied(h, in, orig_msg_src, orig_msg_id, payload) ==
    LET r == KReply(in, orig_msg_src, orig_msg_id, payload)
    IN Outcome(h, r.inner, << r.env >>, "ok")

\* the keys of a HashMap in the order its iterator yields them: ord is that
\* order over all keys
KeysIn(ord, m) == SelectSeq(ord, LAMBDA k : k \in DOMAIN m)

\* handle, lines 163-199: Send
KHandleSend(h, in, message) ==
    LET kv_offset_key == offset_key(message.payload.key)
        rd == SendToLinKv(in, [type |-> "read", key |-> kv_offset_key])
        h1 == [h EXCEPT !.offset_reads = MapInsert(@, rd.id, kv_offset_key)]
    IN IF message.msg_id = None
       THEN Outcome(h1, rd.inner, << rd.env >>, "panic")
       ELSE Outcome([h1 EXCEPT !.send_msg_keys =
                        MapInsert(@, rd.id,
                                  [orig_msg_id |-> message.msg_id[1],
                                   orig_msg_src |-> message.src,
                                   key |-> message.payload.key,
                                   offset |-> 0,
                                   msg |-> message.payload.msg])],
                    rd.inner, << rd.env >>, "ok")

\* handle, lines 235-266: the reads of one key after another
RECURSIVE PollTargets(_, _)
PollTargets(offsets, keys) ==
    IF keys = << >>
    THEN << >>
    ELSE LET key == Head(keys)
             offset == IF offsets[key] = 0 THEN 1 ELSE offsets[key]
         IN [i \in 1..NUM_POLLED_MESSAGES |-> << key, offset + i - 1 >>]
            \o PollTargets(offsets, Tail(keys))

\* handle, lines 241-264: one Read per target, remembered in poll_msg_keys
RECURSIVE PollLoop(_, _, _, _, _)
PollLoop(h, in, out, message, targets) ==
    IF targets = << >>
    THEN Outcome(h, in, out, "ok")
    ELSE LET t == Head(targets)
             rd == SendToLinKv(in, [type |-> "read", key |-> logged_msg_key(t[1], t[2])])
             entry == [orig_msg_id |-> message.msg_id[1],
                       orig_msg_src |-> message.src,
                       requested_key_offsets |-> message.payload.offsets,
                       key |-> t[1],
                       offset |-> t[2]]
         IN PollLoop([h EXCEPT !.poll_msg_keys = MapInsert(@, rd.id, entry)],
                     rd.inner, Append(out, rd.env), message, Tail(targets))

\* handle, lines 201-269: Poll
KHandlePoll(h, in, message, ord) ==
    LET offsets == message.payload.offsets
        keys == KeysIn(ord, offsets)
        k == RequestKey(message.src, message.msg_id[1])
        polled == [messages |-> [key \in DOMAIN offsets |-> << >>],
                   requested_keys |-> keys,
                   completed_keys |-> {}]
    IN IF DOMAIN offsets = {}
       THEN Replied(h, in, message, [type |-> "poll_ok", msgs |-> << >>])
       ELSE IF message.msg_id = None
       THEN Outcome(h, in, << >>, "panic")
       ELSE PollLoop([h EXCEPT !.polled_messages = MapInsert(@, k, polled)],
                     in, << >>, message, PollTargets(offsets, keys))

\* handle, lines 276-295: one Write per offset, remembered in commit_msg_keys
RECURSIVE CommitLoop(_, _, _, _, _)
CommitLoop(h, in, out, message, keys) ==
    IF keys = << >>
    THEN Outcome(h, in, out, "ok")
    ELSE LET key == Head(keys)
             wr1 == SendToLinKv(in, [type |-> "write", key |-> committed_offset_key(key),
                                     value |-> message.payload.offsets[key]])
             entry == [orig_msg_id |-> message.msg_id[1],
                       orig_msg_src |-> message.src,
                       key |-> key,
                       requested_keys_count |-> Cardinality(DOMAIN message.payload.offsets)]
         IN CommitLoop([h EXCEPT !.commit_msg_keys = MapInsert(@, wr1.id, entry)],
                       wr1.inner, Append(out, wr1.env), message, Tail(keys))

\* handle, lines 271-298: CommitOffsets
KHandleCommitOffsets(h, in, message, ord) ==
    IF message.msg_id = None
    THEN Outcome(h, in, << >>, "panic")
    ELSE CommitLoop([h EXCEPT !.committed_offsets_written =
                        MapInsert(@, RequestKey(message.src, message.msg_id[1]), 0)],
                    in, << >>, message, KeysIn(ord, message.payload.offsets))

\* handle, lines 304-321: one Read per key, remembered in committed_offset_reads
RECURSIVE ListLoop(_, _, _, _, _)
ListLoop(h, in, out, message, keys) ==
    IF keys = << >>
    THEN Outcome(h, in, out, "ok")
    ELSE LET key == Head(keys)
             rd == SendToLinKv(in, [type |-> "read", key |-> committed_offset_key(key)])
             entry == [orig_msg_id |-> message.msg_id[1],
                       orig_msg_src |-> message.src,
                       key |-> key,
                       requested_keys_count |-> Len(message.payload.keys)]
         IN ListLoop([h EXCEPT !.committed_offset_reads = MapInsert(@, rd.id, entry)],
                     rd.inner, Append(out, rd.env), message, Tail(keys))

\* handle, lines 300-334: ListCommittedOffsets
KHandleListCommittedOffsets(h, in, message) ==
    IF message.msg_id = None
    THEN Outcome(h, in, << >>, "panic")
    ELSE LET r == ListLoop(h, in, << >>, message, message.payload.keys)
             k == RequestKey(message.src, message.msg_id[1])
             committed == [requested_keys |-> message.payload.keys, offsets |-> << >>]
         IN [r EXCEPT !.h.list_committed_offsets = MapInsert(@, k, committed)]

\* mutant of PolledAllCompleted: one complete key is enough
PolledAnyCompleted(p) == p.completed_keys # {}

\* mutant of CommittedAllCompleted: one offset is enough
CommittedAnyCompleted(c) == DOMAIN c.offsets # {}

\* PolledMessages::all_completed and CommittedOffsets::all_completed
PolledAllCompleted(p) == Len(p.requested_keys) = Cardinality(p.completed_keys)
CommittedAllCompleted(c) == Len(c.requested_keys) = Cardinality(DOMAIN c.offsets)

\* handle, lines 395-406 and 590-601: the collected messages of the requested keys
ReturnedMsgs(entry, polled) ==
    [key \in DOMAIN entry.requested_key_offsets |-> polled.messages[key]]

\* mutant of MoveToCas: the SendEntry stays under the msg_id of the message
\* answered
MoveToCasInPlace(h, in, h1, msg_id, kv_offset_key, value, create, missing) ==
    LET cas == SendToLinKv(in, [type |-> "cas", key |-> kv_offset_key,
                                from |-> value, to |-> value + 1,
                                create_if_not_exists |-> create])
        h2 == [h1 EXCEPT !.offset_updates = MapInsert(@, cas.id, << kv_offset_key, value + 1 >>)]
    IN Outcome(h2, cas.inner, << cas.env >>, "ok")

\* handle, lines 339-361 and 634-656: the offset CAS from value to value + 1
\* takes over the SendEntry of the message answered; missing says what the
\* handler returns when there is no such entry
MoveToCas(h, in, h1, msg_id, kv_offset_key, value, create, missing) ==
    LET cas == SendToLinKv(in, [type |-> "cas", key |-> kv_offset_key,
                                from |-> value, to |-> value + 1,
                                create_if_not_exists |-> create])
        h2 == [h1 EXCEPT !.offset_updates = MapInsert(@, cas.id, << kv_offset_key, value + 1 >>)]
    IN IF msg_id \in DOMAIN h.send_msg_keys
       THEN Outcome([h2 EXCEPT !.send_msg_keys =
                        MapInsert(MapRemove(@, msg_id), cas.id, h.send_msg_keys[msg_id])],
                    cas.inner, << cas.env >>, "ok")
       ELSE Outcome(h2, cas.inner, << cas.env >>, missing)

\* mutant of KPollReadOk: the message is paired with the next offset
KPollReadOkNext(h, in, message, msg_id) ==
    LET entry == h.poll_msg_keys[msg_id]
        h1 == [h EXCEPT !.poll_msg_keys = MapRemove(@, msg_id)]
        k == RequestKey(entry.orig_msg_src, entry.orig_msg_id)
    IN IF k \notin DOMAIN h.polled_messages
       THEN Outcome(h1, in, << >>, "panic")
       ELSE LET p0 == h.polled_messages[k]
                p1 == [p0 EXCEPT !.messages[entry.key] =
                          Append(@, << entry.offset + 1, message.payload.value >>)]
                p2 == IF Len(p1.messages[entry.key]) >= NUM_POLLED_MESSAGES
                      THEN [p1 EXCEPT !.completed_keys = @ \cup {entry.key}]
                      ELSE p1
            IN IF ~PolledAllCompleted(p2)
               THEN Outcome([h1 EXCEPT !.polled_messages[k] = p2], in, << >>, "ok")
               ELSE KReplied([h1 EXCEPT !.polled_messages = MapRemove(@, k)], in,
                             entry.orig_msg_src, entry.orig_msg_id,
                             [type |-> "poll_ok", msgs |-> ReturnedMsgs(entry, p2)])

\* handle, lines 364-423: ReadOk for a read of a logged message
KPollReadOk(h, in, message, msg_id) ==
    LET entry == h.poll_msg_keys[msg_id]
        h1 == [h EXCEPT !.poll_msg_keys = MapRemove(@, msg_id)]
        k == RequestKey(entry.orig_msg_src, entry.orig_msg_id)
    IN IF k \notin DOMAIN h.polled_messages
       THEN Outcome(h1, in, << >>, "panic")
       ELSE LET p0 == h.polled_messages[k]
                p1 == [p0 EXCEPT !.messages[entry.key] =
                          Append(@, << entry.offset, message.payload.value >>)]
                p2 == IF Len(p1.messages[entry.key]) >= NUM_POLLED_MESSAGES
                      THEN [p1 EXCEPT !.completed_keys = @ \cup {entry.key}]
                      ELSE p1
            IN IF ~PolledAllCompleted(p2)
               THEN Outcome([h1 EXCEPT !.polled_messages[k] = p2], in, << >>, "ok")
               ELSE KReplied([h1 EXCEPT !.polled_messages = MapRemove(@, k)], in,
                             entry.orig_msg_src, entry.orig_msg_id,
                             [type |-> "poll_ok", msgs |-> ReturnedMsgs(entry, p2)])

\* handle, lines 425-452: ReadOk for a read of a committed offset
KCommittedReadOk(h, in, message, msg_id) ==
    LET entry == h.committed_offset_reads[msg_id]
        h1 == [h EXCEPT !.committed_offset_reads = MapRemove(@, msg_id)]
        k == RequestKey(entry.orig_msg_src, entry.orig_msg_id)
    IN IF k \notin DOMAIN h.list_committed_offsets
       THEN Outcome(h1, in, << >>, "panic")
       ELSE LET c0 == h.list_committed_offsets[k]
                c1 == [c0 EXCEPT !.offsets = MapInsert(@, entry.key, message.payload.value)]
            IN IF ~CommittedAllCompleted(c1)
               THEN Outcome([h1 EXCEPT !.list_committed_offsets[k] = c1], in, << >>, "ok")
               ELSE KReplied([h1 EXCEPT !.list_committed_offsets = MapRemove(@, k)], in,
                             entry.orig_msg_src, entry.orig_msg_id,
                             [type |-> "list_committed_offsets_ok", offsets |-> c1.offsets])

\* handle, lines 336-465: ReadOk
KHandleReadOk(h, in, message) ==
    LET msg_id == message.in_reply_to[1]
    IN IF message.in_reply_to = None
       THEN Outcome(h, in, << >>, "panic")
       ELSE IF msg_id \in DOMAIN h.offset_reads
       THEN MoveToCas(h, in, [h EXCEPT !.offset_reads = MapRemove(@, msg_id)], msg_id,
                      h.offset_reads[msg_id], message.payload.value, FALSE, "ok")
       ELSE IF msg_id \in DOMAIN h.poll_msg_keys
       THEN KPollReadOk(h, in, message, msg_id)
       ELSE IF msg_id \in DOMAIN h.committed_offset_reads
       THEN KCommittedReadOk(h, in, message, msg_id)
       ELSE Outcome(h, in, << >>, "err")

\* handle, lines 467-490: CasOk
KHandleCasOk(h, in, message) ==
    LET msg_id == message.in_reply_to[1]
    IN IF message.in_reply_to = None
       THEN Outcome(h, in, << >>, "panic")
       ELSE IF msg_id \notin DOMAIN h.offset_updates
       THEN Outcome(h, in, << >>, "err")
       ELSE LET incremented_offset == h.offset_updates[msg_id][2]
                h1 == [h EXCEPT !.offset_updates = MapRemove(@, msg_id)]
            IN IF msg_id \notin DOMAIN h.send_msg_keys
               THEN Outcome(h1, in, << >>, "err")
               ELSE LET entry == [h.send_msg_keys[msg_id] EXCEPT !.offset = incremented_offset]
                        wr1 == SendToLinKv(in, [type |-> "write",
                                                key |-> logged_msg_key(entry.key, incremented_offset),
                                                value |-> entry.msg])
                    IN Outcome([h1 EXCEPT !.send_msg_keys =
                                   MapInsert(MapRemove(@, msg_id), wr1.id, entry)],
                               wr1.inner, << wr1.env >>, "ok")

\* mutant of KHandleWriteOk: the first write_ok of a commit is answered
KHandleWriteOkFirst(h, in, message) ==
    LET msg_id == message.in_reply_to[1]
    IN IF message.in_reply_to = None
       THEN Outcome(h, in, << >>, "panic")
       ELSE IF msg_id \in DOMAIN h.send_msg_keys
       THEN LET entry == h.send_msg_keys[msg_id]
            IN KReplied([h EXCEPT !.send_msg_keys = MapRemove(@, msg_id)], in,
                        entry.orig_msg_src, entry.orig_msg_id,
                        [type |-> "send_ok", offset |-> entry.offset])
       ELSE IF msg_id \in DOMAIN h.commit_msg_keys
       THEN LET entry == h.commit_msg_keys[msg_id]
                h1 == [h EXCEPT !.commit_msg_keys = MapRemove(@, msg_id)]
                k == RequestKey(entry.orig_msg_src, entry.orig_msg_id)
            IN IF k \notin DOMAIN h.committed_offsets_written
               THEN Outcome(h1, in, << >>, "ok")
               ELSE KReplied([h1 EXCEPT !.committed_offsets_written = MapRemove(@, k)], in,
                             entry.orig_msg_src, entry.orig_msg_id,
                             [type |-> "commit_offsets_ok"])
       ELSE Outcome(h, in, << >>, "err")

\* handle, lines 492-541: WriteOk
KHandleWriteOk(h, in, message) ==
    LET msg_id == message.in_reply_to[1]
    IN IF message.in_reply_to = None
       THEN Outcome(h, in, << >>, "panic")
       ELSE IF msg_id \in DOMAIN h.send_msg_keys
       THEN LET entry == h.send_msg_keys[msg_id]
            IN KReplied([h EXCEPT !.send_msg_keys = MapRemove(@, msg_id)], in,
                        entry.orig_msg_src, entry.orig_msg_id,
                        [type |-> "send_ok", offset |-> entry.offset])
       ELSE IF msg_id \in DOMAIN h.commit_msg_keys
       THEN LET entry == h.commit_msg_keys[msg_id]
                h1 == [h EXCEPT !.commit_msg_keys = MapRemove(@, msg_id)]
                k == RequestKey(entry.orig_msg_src, entry.orig_msg_id)
            IN IF k \notin DOMAIN h.committed_offsets_written
               THEN Outcome(h1, in, << >>, "panic")
               ELSE IF h.committed_offsets_written[k] + 1 < entry.requested_keys_count
               THEN Outcome([h1 EXCEPT !.committed_offsets_written[k] = @ + 1], in, << >>, "ok")
               ELSE KReplied([h1 EXCEPT !.committed_offsets_written = MapRemove(@, k)], in,
                             entry.orig_msg_src, entry.orig_msg_id,
                             [type |-> "commit_offsets_ok"])
       ELSE Outcome(h, in, << >>, "err")

\* mutant of KPollKeyMissing: the aggregator is expected to be there
KPollKeyMissingStrict(h, in, message, msg_id) ==
    LET entry == h.poll_msg_keys[msg_id]
        h1 == [h EXCEPT !.poll_msg_keys = MapRemove(@, msg_id)]
        k == RequestKey(entry.orig_msg_src, entry.orig_msg_id)
    IN IF k \notin DOMAIN h.polled_messages
       THEN Outcome(h1, in, << >>, "panic")
       ELSE LET p1 == [h.polled_messages[k] EXCEPT !.completed_keys = @ \cup {entry.key}]
            IN IF ~PolledAllCompleted(p1)
               THEN Outcome([h1 EXCEPT !.polled_messages[k] = p1], in, << >>, "ok")
               ELSE KReplied([h1 EXCEPT !.polled_messages = MapRemove(@, k)], in,
                             entry.orig_msg_src, entry.orig_msg_id,
                             [type |-> "poll_ok", msgs |-> ReturnedMsgs(entry, p1)])

\* handle, lines 569-617: key-does-not-exist for a read of a logged message
KPollKeyMissing(h, in, message, msg_id) ==
    LET entry == h.poll_msg_keys[msg_id]
        h1 == [h EXCEPT !.poll_msg_keys = MapRemove(@, msg_id)]
        k == RequestKey(entry.orig_msg_src, entry.orig_msg_id)
    IN IF k \notin DOMAIN h.polled_messages
       THEN Outcome(h1, in, << >>, "ok")
       ELSE LET p1 == [h.polled_messages[k] EXCEPT !.completed_keys = @ \cup {entry.key}]
            IN IF ~PolledAllCompleted(p1)
               THEN Outcome([h1 EXCEPT !.polled_messages[k] = p1], in, << >>, "ok")
               ELSE KReplied([h1 EXCEPT !.polled_messages = MapRemove(@, k)], in,
                             entry.orig_msg_src, entry.orig_msg_id,
                             [type |-> "poll_ok", msgs |-> ReturnedMsgs(entry, p1)])

\* handle, lines 545-632: Error with code key-does-not-exist
KKeyDoesNotExist(h, in, message, msg_id) ==
    IF msg_id \in DOMAIN h.offset_reads
    THEN MoveToCas(h, in, [h EXCEPT !.offset_reads = MapRemove(@, msg_id)], msg_id,
                   h.offset_reads[msg_id], 0, TRUE, "err")
    ELSE IF msg_id \in DOMAIN h.poll_msg_keys
    THEN KPollKeyMissing(h, in, message, msg_id)
    ELSE IF msg_id \in DOMAIN h.committed_offset_reads
    THEN LET entry == h.committed_offset_reads[msg_id]
         IN KReplied([h EXCEPT !.committed_offset_reads = MapRemove(@, msg_id)], in,
                     entry.orig_msg_src, entry.orig_msg_id,
                     [type |-> "list_committed_offsets_ok", offsets |-> << >>])
    ELSE Outcome(h, in, << >>, "err")

\* mutant of KPreconditionFailed: the retry skips an offset
KPreconditionFailedSkip(h, in, message, msg_id) ==
    IF msg_id \in DOMAIN h.offset_updates
    THEN MoveToCas(h, in, [h EXCEPT !.offset_updates = MapRemove(@, msg_id)], msg_id,
                   h.offset_updates[msg_id][1], h.offset_updates[msg_id][2] + 1, FALSE, "err")
    ELSE Outcome(h, in, << >>, "err")

\* mutant of KPreconditionFailed: the send is given up
KPreconditionFailedGiveUp(h, in, message, msg_id) ==
    Outcome(h, in, << >>, "err")

\* mutant of KPreconditionFailed: the offset that lost the race is used
KPreconditionFailedKeep(h, in, message, msg_id) ==
    IF msg_id \in DOMAIN h.offset_updates
    THEN KHandleCasOk(h, in, message)
    ELSE Outcome(h, in, << >>, "err")

\* handle, lines 633-659: Error with code precondition-failed
KPreconditionFailed(h, in, message, msg_id) ==
    IF msg_id \in DOMAIN h.offset_updates
    THEN MoveToCas(h, in, [h EXCEPT !.offset_updates = MapRemove(@, msg_id)], msg_id,
                   h.offset_updates[msg_id][1], h.offset_updates[msg_id][2], FALSE, "err")
    ELSE Outcome(h, in, << >>, "err")

\* handle, lines 543-666: Error
KHandleError(h, in, message) ==
    IF message.in_reply_to = None
    THEN Outcome(h, in, << >>, "panic")
    ELSE IF message.payload.code = ERROR_KEY_DOES_NOT_EXIST
    THEN KKeyDoesNotExist(h, in, message, message.in_reply_to[1])
    ELSE IF message.payload.code = ERROR_PRECONDITION_FAILED
    THEN KPreconditionFailed(h, in, message, message.in_reply_to[1])
    ELSE Outcome(h, in, << >>, "err")

\* KafkaLog::handle; ord is the order in which the HashMap of the request
\* yields its keys
KHandle(h0, in, message, ord) ==
    LET h == [h0 EXCEPT !.node = TRUE]
    IN CASE message.payload.type = "send" -> KHandleSend(h, in, message)
         [] message.payload.type = "poll" -> KHandlePoll(h, in, message, ord)
         [] message.payload.type = "commit_offsets" -> KHandleCommitOffsets(h, in, message, ord)
         [] message.payload.type = "list_committed_offsets" ->
                KHandleListCommittedOffsets(h, in, message)
         [] message.payload.type = "read_ok" -> KHandleReadOk(h, in, message)
         [] message.payload.type = "cas_ok" -> KHandleCasOk(h, in, message)
         [] message.payload.type = "write_ok" -> KHandleWriteOk(h, in, message)
         [] message.payload.type = "error" -> KHandleError(h, in, message)
         [] message.payload.type \in {"send_ok", "poll_ok", "commit_offsets_ok",
                                      "list_committed_offsets_ok"} ->
                Outcome(h, in, << >>, "ok")

(***************************************************************************)
(* Driving the handlers.                                                   *)
(***************************************************************************)
Clients == {"c1", "c2"}
Services == {SEQ_KV_SERVICE_ID, LIN_KV_SERVICE_ID}
Values == {1, 2}
Cluster == DOMAIN node

\* the pseudo-message that stands for a Command event in lastIn
CommandEvent(n, cmd) == Msg(n, n, None, [type |-> cmd])

\* the envelopes of a handler invocation that travel to a node or a service
ToNet(out) == {e \in Range(out) : e.dest \notin Clients}

\* one event handled at node n with outcome r, as the event thread does it:
\* a handler that panics or returns Err ends the thread for good
Advance(n, r) ==
    /\ up[n] = "ok"
    /\ UNCHANGED rtVars
    /\ node' = [node EXCEPT ![n] = r.inner]
    /\ up' = [up EXCEPT ![n] = r.res]

\* the same, remembering the event and what the handler wrote for it
Dispatch(n, ev, r) ==
    /\ Advance(n, r)
    /\ r.inner.msg_id <= MaxMsgId + 1
    /\ lastIn' = Some(ev)
    /\ lastOut' = r.out
    /\ lastAt' = n

---------------------------------------------------------------------------
\* broadcast, one node and any input: the node is n1 of a three-node cluster
LineTopology == [n1 |-> << "n2" >>, n2 |-> << "n1", "n3" >>, n3 |-> << "n2" >>]
FullTopology == [n1 |-> << "n2", "n3" >>, n2 |-> << "n1", "n3" >>, n3 |-> << "n1", "n2" >>]

\* every payload of the Payload enum, lines 12-31
BPayloads ==
    {[type |-> "broadcast", message |-> v] : v \in Values}
    \cup {[type |-> t, have |-> S] : t \in {"gossip", "gossip_ok"}, S \in SUBSET Values}
    \cup {[type |-> "read_ok", messages |-> S] : S \in SUBSET Values}
    \cup {[type |-> t] : t \in {"read", "broadcast_ok", "topology_ok"}}
    \cup {[type |-> "topology", topology |-> t] :
            t \in {LineTopology, FullTopology, [n2 |-> << "n3" >>, n3 |-> << "n2" >>]}}

\* who may have written an incoming envelope, and with which msg_id
BSenders == {"n2", "c1"}
BMsgIds == {Some(40)}

InitBroadcast ==
    /\ RtIdle
    /\ wl = "broadcast"
    /\ node = [n \in {"n1"} |-> InnerAfterInit(n, << "n1", "n2", "n3" >>)]
    /\ up = [n \in {"n1"} |-> "ok"]
    /\ net = {}
    /\ lastIn = None
    /\ lastOut = << >>
    /\ lastAt = ""
    /\ nReq = 0
    /\ reqs = {}
    /\ nCmd = 0
    /\ kv = << >>
    /\ sent = {}
    /\ nLost = 0
    /\ nDup = 0
    /\ topo = << >>
    /\ handler = [n \in {"n1"} |-> NewBroadcastHandler(<< "n1", "n2", "n3" >>)]

\* a message arrives on stdin and is handled
BReceive(n) ==
    /\ wl = "broadcast"
    /\ \E src \in BSenders, id \in BMsgIds, p \in BPayloads :
           LET m == Msg(src, n, id, p)
               r == BHandle(handler[n], node[n], m)
           IN /\ Dispatch(n, m, r)
              /\ handler' = [handler EXCEPT ![n] = r.h]
              /\ UNCHANGED << wl, kv, sent, reqs, nCmd, net, nReq, nLost, nDup, topo >>

\* the timer's SendGossip command is handled
BTick(n) ==
    /\ wl = "broadcast"
    /\ LET r == BHandleCommand(handler[n], node[n], "send_gossip")
       IN /\ Dispatch(n, CommandEvent(n, "send_gossip"), r)
          /\ handler' = [handler EXCEPT ![n] = r.h]
          /\ UNCHANGED << wl, kv, sent, reqs, nCmd, net, nReq, nLost, nDup, topo >>

NextBroadcast ==
    \/ \E n \in Cluster : BReceive(n)
    \/ \E n \in Cluster : BTick(n)

---------------------------------------------------------------------------
\* broadcast, a cluster of three honest nodes, clients, and a network that
\* may drop and duplicate
GossipNodes == {"n1", "n2", "n3"}
GossipIds == << "n1", "n2", "n3" >>

InitGossip ==
    /\ RtIdle
    /\ wl = "gossip"
    /\ node = [n \in GossipNodes |-> InnerAfterInit(n, GossipIds)]
    /\ up = [n \in GossipNodes |-> "ok"]
    /\ net = {}
    /\ lastIn = None
    /\ lastOut = << >>
    /\ lastAt = ""
    /\ nReq = 0
    /\ reqs = {}
    /\ nCmd = 0
    /\ kv = << >>
    /\ sent = {}
    /\ nLost = 0
    /\ nDup = 0
    /\ topo = LineTopology
    /\ handler = [n \in GossipNodes |-> NewBroadcastHandler(GossipIds)]

\* a client request: msg ids of a client are its request count
ClientMsg(n, p) == Msg("c1", n, Some(nReq + 1), p)

\* Maelstrom hands the topology to a node, once
GTopology(n) ==
    /\ wl = "gossip"
    /\ LET m == ClientMsg(n, [type |-> "topology", topology |-> topo])
           r == BHandle(handler[n], node[n], m)
       IN /\ handler[n].topology = << >>
          /\ Advance(n, r)
          /\ handler' = [handler EXCEPT ![n] = r.h]
          /\ nReq' = nReq + 1
          /\ net' = net \cup ToNet(r.out)
          /\ UNCHANGED << wl, kv, sent, reqs, nCmd, lastIn, lastOut, lastAt, nLost, nDup, topo >>

\* Maelstrom starts the workload once every node has its topology
TopologyEverywhere == \A n \in Cluster : handler[n].topology # << >>

\* broadcast requests issued so far
NBroadcasts == nReq - Cardinality({n \in Cluster : handler[n].topology # << >>})

\* a client broadcasts a value at a node; the workload's values are unique:
\* the k-th broadcast carries k
GBroadcast(n) ==
    /\ wl = "gossip"
    /\ LET m == ClientMsg(n, [type |-> "broadcast", message |-> NBroadcasts + 1])
           r == BHandle(handler[n], node[n], m)
       IN /\ NBroadcasts < MaxBroadcasts
          /\ TopologyEverywhere
          /\ Advance(n, r)
          /\ handler' = [handler EXCEPT ![n] = r.h]
          /\ nReq' = nReq + 1
          /\ net' = net \cup ToNet(r.out)
          /\ UNCHANGED << wl, kv, sent, reqs, nCmd, lastIn, lastOut, lastAt, nLost, nDup, topo >>

\* the network delivers an envelope to its destination
GDeliver(m) ==
    /\ wl = "gossip"
    /\ LET r == BHandle(handler[m.dest], node[m.dest], m)
       IN /\ Advance(m.dest, r)
          /\ handler' = [handler EXCEPT ![m.dest] = r.h]
          /\ net' = (net \ {m}) \cup ToNet(r.out)
          /\ UNCHANGED << wl, kv, sent, reqs, nCmd, lastIn, lastOut, lastAt, nReq, nLost, nDup, topo >>

\* the network delivers an envelope and will deliver it again
GDeliverDup(m) ==
    /\ wl = "gossip"
    /\ LET r == BHandle(handler[m.dest], node[m.dest], m)
       IN /\ nLost + nDup < MaxFaults
          /\ Advance(m.dest, r)
          /\ handler' = [handler EXCEPT ![m.dest] = r.h]
          /\ net' = net \cup ToNet(r.out)
          /\ nDup' = nDup + 1
          /\ UNCHANGED << wl, kv, sent, reqs, nCmd, lastIn, lastOut, lastAt, nReq, nLost, topo >>

\* the network loses an envelope
GDrop(m) ==
    /\ wl = "gossip"
    /\ nLost + nDup < MaxFaults
    /\ net' = net \ {m}
    /\ nLost' = nLost + 1
    /\ UNCHANGED << wl, kv, sent, reqs, nCmd, node, up, lastIn, lastOut, lastAt, nReq, nDup, topo, handler >>
    /\ UNCHANGED rtVars

\* nothing n gossiped, and no acknowledgement for n, is in flight
Quiet(n) ==
    \A e \in net : ~(e.src = n /\ e.payload.type = "gossip")
                   /\ ~(e.dest = n /\ e.payload.type = "gossip_ok")

\* the timer's SendGossip command is handled; the timer is slower than the
\* network: it fires at a node once the last round has been delivered or lost
GTick(n) ==
    /\ wl = "gossip"
    /\ LET r == BHandleCommand(handler[n], node[n], "send_gossip")
       IN /\ Quiet(n)
          /\ r.out # << >>
          /\ Advance(n, r)
          /\ handler' = [handler EXCEPT ![n] = r.h]
          /\ net' = net \cup ToNet(r.out)
          /\ UNCHANGED << wl, kv, sent, reqs, nCmd, lastIn, lastOut, lastAt, nReq, nLost, nDup, topo >>

NextGossip ==
    \/ \E n \in Cluster : GTopology(n)
    \/ \E n \in Cluster : GBroadcast(n)
    \/ \E n \in Cluster : GTick(n)
    \/ \E m \in net : GDeliver(m)
    \/ \E m \in net : GDeliverDup(m)
    \/ \E m \in net : GDrop(m)

---------------------------------------------------------------------------
\* g-counter and kafka, one node: clients that number their requests, and
\* key-value services that answer each request of the node once
KvValues == {1}
Keys == {"k1", "k2"}
Orders == {<< "k1", "k2" >>, << "k2", "k1" >>}

KvError(code) == [type |-> "error", code |-> code, text |-> ""]

\* what a Maelstrom key-value service may answer to a request: the result, the
\* errors of the operation, or a crash of the service (code 13)
KvAnswers(p) ==
    CASE p.type = "read" ->
            {[type |-> "read_ok", value |-> v] : v \in KvValues}
            \cup {KvError(ERROR_KEY_DOES_NOT_EXIST), KvError(13)}
      [] p.type = "write" -> {[type |-> "write_ok"], KvError(13)}
      [] p.type = "cas" ->
            {[type |-> "cas_ok"], KvError(ERROR_PRECONDITION_FAILED), KvError(13)}
            \cup (IF p.create_if_not_exists THEN {} ELSE {KvError(ERROR_KEY_DOES_NOT_EXIST)})

\* the answer of a service to the request q of a node
KvReply(q, p) ==
    [src |-> q.dest, dest |-> q.src, msg_id |-> Some(90 + q.msg_id[1]),
     in_reply_to |-> q.msg_id, payload |-> p]

\* the clients are alike: the first request comes from c1
Requesters == IF nReq = 0 THEN {"c1"} ELSE Clients

\* the orders in which a HashMap with the keys of m may yield them
OrdersOf(m) == {KeysIn(ord, m) : ord \in Orders}

\* what is remembered of a client request
Req(m) ==
    [src |-> m.src, msg_id |-> m.msg_id, type |-> m.payload.type, payload |-> m.payload]

\* the requests whose answer the handlers put off until a service has answered
Deferred == {"read", "send", "poll", "commit_offsets", "list_committed_offsets"}

\* an event was handled at n with outcome r: a client request (req, counted),
\* the answer to the node's request q, or a command
Served(n, ev, r, count, answered) ==
    /\ Dispatch(n, ev, r)
    /\ handler' = [handler EXCEPT ![n] = r.h]
    /\ nReq' = nReq + count
    /\ reqs' = IF count = 1 /\ ev.payload.type \in Deferred THEN reqs \cup {Req(ev)} ELSE reqs
    /\ net' = (net \ answered) \cup ToNet(r.out)
    /\ UNCHANGED << wl, nLost, nDup, topo >>

InitGCounter ==
    /\ RtIdle
    /\ wl = "g-counter"
    /\ node = [n \in {"n1"} |-> InnerAfterInit(n, << "n1", "n2", "n3" >>)]
    /\ up = [n \in {"n1"} |-> "ok"]
    /\ net = {}
    /\ lastIn = None
    /\ lastOut = << >>
    /\ lastAt = ""
    /\ nReq = 0
    /\ reqs = {}
    /\ nCmd = 0
    /\ kv = << >>
    /\ sent = {}
    /\ nLost = 0
    /\ nDup = 0
    /\ topo = << >>
    /\ handler = [n \in {"n1"} |-> NewGCounter]

GPayloads == {[type |-> "add", delta |-> 1], [type |-> "read"]}

\* a client request arrives and is handled
GRequest(n) ==
    /\ wl = "g-counter"
    /\ \E c \in Requesters, p \in GPayloads :
           LET m == Msg(c, n, Some(40 + nReq), p)
           IN /\ nReq < MaxReqs
              /\ Served(n, m, GHandle(handler[n], node[n], m), 1, {})
              /\ UNCHANGED << nCmd, kv, sent >>

\* the answer of seq-kv to a request of the node arrives and is handled
GKvReply(n) ==
    /\ wl = "g-counter"
    /\ \E q \in net : \E p \in KvAnswers(q.payload) :
           LET m == KvReply(q, p)
           IN /\ q.src = n
              /\ Served(n, m, GHandle(handler[n], node[n], m), 0, {q})
              /\ UNCHANGED << nCmd, kv, sent >>

\* the InitStore command of main's thread is handled
GInitStore(n) ==
    /\ wl = "g-counter"
    /\ nCmd = 0
    /\ Served(n, CommandEvent(n, "init_store"),
              GHandleCommand(handler[n], node[n], "init_store"), 0, {})
    /\ nCmd' = 1
    /\ UNCHANGED << kv, sent >>

NextGCounter ==
    \/ \E n \in Cluster : GRequest(n)
    \/ \E n \in Cluster : GKvReply(n)
    \/ \E n \in Cluster : GInitStore(n)

InitKafka ==
    /\ RtIdle
    /\ wl = "kafka"
    /\ node = [n \in {"n1"} |-> InnerAfterInit(n, << "n1", "n2", "n3" >>)]
    /\ up = [n \in {"n1"} |-> "ok"]
    /\ net = {}
    /\ lastIn = None
    /\ lastOut = << >>
    /\ lastAt = ""
    /\ nReq = 0
    /\ reqs = {}
    /\ nCmd = 0
    /\ kv = << >>
    /\ sent = {}
    /\ nLost = 0
    /\ nDup = 0
    /\ topo = << >>
    /\ handler = [n \in {"n1"} |-> NewKafkaLog]

KPayloads ==
    {[type |-> "send", key |-> "k1", msg |-> 7]}
    \cup {[type |-> "poll", offsets |-> o] : o \in {<< >>, [k \in {"k1"} |-> 0]}}
    \cup {[type |-> "commit_offsets", offsets |-> o] :
            o \in {<< >>, [k \in Keys |-> 1]}}
    \cup {[type |-> "list_committed_offsets", keys |-> ks] :
            ks \in {<< >>, << "k1" >>, << "k1", "k2" >>}}

\* a client request arrives and is handled
KRequest(n) ==
    /\ wl = "kafka"
    /\ \E c \in Requesters, p \in KPayloads :
         \E ord \in (IF p.type \in {"poll", "commit_offsets"} THEN OrdersOf(p.offsets) ELSE {<< >>}) :
           LET m == Msg(c, n, Some(40 + nReq), p)
           IN /\ nReq < MaxReqs
              /\ Served(n, m, KHandle(handler[n], node[n], m, ord), 1, {})
              /\ UNCHANGED << nCmd, kv, sent >>

\* the answer of lin-kv to a request of the node arrives and is handled
KKvReply(n) ==
    /\ wl = "kafka"
    /\ \E q \in net : \E p \in KvAnswers(q.payload) :
           LET m == KvReply(q, p)
           IN /\ q.src = n
              /\ Served(n, m, KHandle(handler[n], node[n], m, << >>), 0, {q})
              /\ UNCHANGED << nCmd, kv, sent >>

NextKafka ==
    \/ \E n \in Cluster : KRequest(n)
    \/ \E n \in Cluster : KKvReply(n)

---------------------------------------------------------------------------
\* g-counter and kafka with the key-value service itself: the service keeps
\* its store, serves the requests that reach it in any order, and its answers
\* travel back in any order

\* a Maelstrom key-value service serves the request p on the store s
KvServe(s, p) ==
    CASE p.type = "read" ->
            IF p.key \in DOMAIN s
            THEN [kv |-> s, ans |-> [type |-> "read_ok", value |-> s[p.key]]]
            ELSE [kv |-> s, ans |-> KvError(ERROR_KEY_DOES_NOT_EXIST)]
      [] p.type = "write" ->
            [kv |-> MapInsert(s, p.key, p.value), ans |-> [type |-> "write_ok"]]
      [] p.type = "cas" ->
            IF p.key \notin DOMAIN s
            THEN IF p.create_if_not_exists
                 THEN [kv |-> MapInsert(s, p.key, p.to), ans |-> [type |-> "cas_ok"]]
                 ELSE [kv |-> s, ans |-> KvError(ERROR_KEY_DOES_NOT_EXIST)]
            ELSE IF s[p.key] = p.from
            THEN [kv |-> MapInsert(s, p.key, p.to), ans |-> [type |-> "cas_ok"]]
            ELSE [kv |-> s, ans |-> KvError(ERROR_PRECONDITION_FAILED)]

\* the envelopes of out that are addressed to clients
ToClients(out) == {out[i] : i \in {j \in DOMAIN out : out[j].dest \in Clients}}

\* what is remembered of a client request, with the answers that had been
\* written when it arrived
Asked(m) ==
    [src |-> m.src, msg_id |-> m.msg_id, type |-> m.payload.type, payload |-> m.payload,
     after |-> sent]

\* an event was handled at n with outcome r; the requests of clients and the
\* answers to them are recorded
Stored(n, ev, r, count, taken) ==
    /\ Advance(n, r)
    /\ handler' = [handler EXCEPT ![n] = r.h]
    /\ nReq' = nReq + count
    /\ reqs' = IF count = 1 THEN reqs \cup {Asked(ev)} ELSE reqs
    /\ net' = (net \ taken) \cup ToNet(r.out)
    /\ sent' = sent \cup ToClients(r.out)
    /\ UNCHANGED << wl, lastIn, lastOut, lastAt, nLost, nDup, topo >>

\* the service takes a request of a node off the network and answers it
KvStep(q) ==
    /\ q.dest \in Services
    /\ LET a == KvServe(kv, q.payload)
       IN /\ kv' = a.kv
          /\ net' = (net \ {q}) \cup {KvReply(q, a.ans)}
    /\ UNCHANGED << rtVars, wl, node, up, handler, lastIn, lastOut, lastAt, nReq, reqs, nCmd,
                    sent, nLost, nDup, topo >>

InitCounterStore ==
    /\ RtIdle
    /\ wl = "counter-store"
    /\ node = [n \in {"n1"} |-> InnerAfterInit(n, << "n1", "n2", "n3" >>)]
    /\ up = [n \in {"n1"} |-> "ok"]
    /\ net = {}
    /\ lastIn = None
    /\ lastOut = << >>
    /\ lastAt = ""
    /\ nReq = 0
    /\ reqs = {}
    /\ nCmd = 0
    /\ kv = << >>
    /\ sent = {}
    /\ nLost = 0
    /\ nDup = 0
    /\ topo = << >>
    /\ handler = [n \in {"n1"} |-> NewGCounter]

Deltas == {1, 2}

\* a client request arrives and is handled
CRequest(n) ==
    /\ wl = "counter-store"
    /\ \E c \in Requesters :
       \E p \in {[type |-> "add", delta |-> d] : d \in Deltas} \cup {[type |-> "read"]} :
           LET m == Msg(c, n, Some(40 + nReq), p)
           IN /\ nReq < MaxReqs
              /\ Stored(n, m, GHandle(handler[n], node[n], m), 1, {})
              /\ UNCHANGED << nCmd, kv >>

\* the InitStore command of main's thread is handled
CInitStore(n) ==
    /\ wl = "counter-store"
    /\ nCmd = 0
    /\ Stored(n, CommandEvent(n, "init_store"),
              GHandleCommand(handler[n], node[n], "init_store"), 0, {})
    /\ nCmd' = 1
    /\ UNCHANGED kv

\* seq-kv serves a request
CKvStep(q) ==
    /\ wl = "counter-store"
    /\ KvStep(q)

\* an answer of seq-kv arrives at its node and is handled
CKvReply(m) ==
    /\ wl = "counter-store"
    /\ m.dest \in Cluster
    /\ Stored(m.dest, m, GHandle(handler[m.dest], node[m.dest], m), 0, {m})
    /\ UNCHANGED << nCmd, kv >>

NextCounterStore ==
    \/ \E n \in Cluster : CRequest(n)
    \/ \E n \in Cluster : CInitStore(n)
    \/ \E q \in net : CKvStep(q)
    \/ \E m \in net : CKvReply(m)

\* the log of k1 as two earlier sends left it in lin-kv
StoredLog ==
    [key \in {offset_key("k1"), logged_msg_key("k1", 1), logged_msg_key("k1", 2)} |->
        IF key = offset_key("k1") THEN 2 ELSE 3 + key[3]]

\* two nodes and lin-kv; w names the traffic, stores the states of lin-kv
InitLog(w, stores) ==
    /\ RtIdle
    /\ wl = w
    /\ node = [n \in {"n1", "n2"} |-> InnerAfterInit(n, << "n1", "n2" >>)]
    /\ up = [n \in {"n1", "n2"} |-> "ok"]
    /\ net = {}
    /\ lastIn = None
    /\ lastOut = << >>
    /\ lastAt = ""
    /\ nReq = 0
    /\ reqs = {}
    /\ nCmd = 0
    /\ kv \in stores
    /\ sent = {}
    /\ nLost = 0
    /\ nDup = 0
    /\ topo = << >>
    /\ handler = [n \in {"n1", "n2"} |-> NewKafkaLog]

\* sends and polls of one client, on a log that is new or was written before
InitLogStore == InitLog("log-store", {<< >>, StoredLog})

\* sends of two clients to a key that was never written
InitLogSends == InitLog("log-sends", {<< >>})

\* a log with three messages of k1 and one of k2
StoredLogs ==
    [key \in {offset_key("k1"), offset_key("k2"), logged_msg_key("k2", 1)}
              \cup {logged_msg_key("k1", o) : o \in 1..3} |->
        IF key = offset_key("k1") THEN 3
        ELSE IF key = offset_key("k2") THEN 1
        ELSE IF key[2] = "k2" THEN 9 ELSE 3 + key[3]]

\* polls of one client for one or two keys, on a log that was written before
InitLogPolls == InitLog("log-polls", {StoredLogs})

\* commits and lists of two clients; no offset was committed, or that of k1 was
InitLogCommits ==
    InitLog("log-commits", {<< >>, [key \in {committed_offset_key("k1")} |-> 1]})

\* the traffic of the kafka nodes with lin-kv
LogWorkloads == {"log-store", "log-sends", "log-polls", "log-commits"}

\* the k-th request of the clients: a send of a message of its own, or a
\* poll of k1
LPayloads(k) ==
    CASE wl = "log-polls" ->
            {[type |-> "poll", offsets |-> o] :
                o \in {<< >>, [key \in {"k2"} |-> 2]}
                      \cup (IF k = 0 THEN {[key \in Keys |-> 0]} ELSE {})}
      [] wl = "log-commits" ->
            {[type |-> "commit_offsets", offsets |-> o] :
                o \in {<< >>, [key \in {"k1"} |-> 2],
                       [key \in Keys |-> IF key = "k1" THEN 1 ELSE 2]}}
            \cup {[type |-> "list_committed_offsets", keys |-> ks] :
                    ks \in {<< >>, << "k1" >>, << "k1", "k2" >>}}
      [] OTHER ->
            {[type |-> "send", key |-> key, msg |-> 7 + k] :
                key \in IF wl = "log-sends" THEN Keys ELSE {"k1"}}
            \cup (IF wl = "log-sends" THEN {}
                  ELSE {[type |-> "poll", offsets |-> [key \in {"k1"} |-> f]] : f \in {0, 1}})

LClients == IF wl \in {"log-sends", "log-commits"} THEN Requesters ELSE {"c1"}

\* the client c has an answer to every request it made
Waits(c) == \A q \in reqs : q.src = c => \E e \in sent : e.dest = c /\ e.in_reply_to = q.msg_id

\* a request of a client arrives at a node and is handled; a Maelstrom client
\* sends its next request once the last one was answered.  The clients and
\* the nodes are alike: the first request goes from c1 to n1
LRequest(n) ==
    /\ wl \in LogWorkloads
    /\ nReq < MaxReqs
    /\ (nReq = 0 \/ wl = "log-polls") => n = "n1"
    /\ \E c \in LClients, p \in LPayloads(nReq) :
         \E ord \in (IF p.type \in {"poll", "commit_offsets"} THEN OrdersOf(p.offsets)
                     ELSE {<< >>}) :
           LET m == Msg(c, n, Some(40 + nReq), p)
           IN /\ Waits(c)
              /\ Stored(n, m, KHandle(handler[n], node[n], m, ord), 1, {})
              /\ UNCHANGED << nCmd, kv >>

\* lin-kv serves a request
LKvStep(q) ==
    /\ wl \in LogWorkloads
    /\ KvStep(q)

\* an answer of lin-kv arrives at its node and is handled
LKvReply(m) ==
    /\ wl \in LogWorkloads
    /\ m.dest \in Cluster
    /\ Stored(m.dest, m, KHandle(handler[m.dest], node[m.dest], m, << >>), 0, {m})
    /\ UNCHANGED << nCmd, kv >>

NextLogStore ==
    \/ \E n \in Cluster : LRequest(n)
    \/ \E q \in net : LKvStep(q)
    \/ \E m \in net : LKvReply(m)

(***************************************************************************)
(* The specifications.                                                     *)
(***************************************************************************)
vars == << rtVars, clVars >>

InitRun == RtInit /\ ClIdle
NextRun == RtNext

SpecRun == InitRun /\ [][NextRun]_vars

\* every thread is scheduled; the environment owes the process nothing
SpecRunFair ==
    /\ SpecRun
    /\ WF_vars(MainStep)
    /\ WF_vars(TimerStep)
    /\ WF_vars(CmdStep)
    /\ WF_vars(EventStep)

SpecBroadcast == InitBroadcast /\ [][NextBroadcast]_vars

SpecCounterStore == InitCounterStore /\ [][NextCounterStore]_vars

SpecLogStore == InitLogStore /\ [][NextLogStore]_vars

SpecLogSends == InitLogSends /\ [][NextLogStore]_vars

SpecLogPolls == InitLogPolls /\ [][NextLogStore]_vars

SpecLogCommits == InitLogCommits /\ [][NextLogStore]_vars

\* the same, where lin-kv serves every request it holds and the loop of
\* Node::run hands every answer that arrived to the handler
SpecLogCommitsFair ==
    /\ SpecLogCommits
    /\ WF_vars(\E q \in net : LKvStep(q))
    /\ WF_vars(\E m \in net : LKvReply(m))

\* the same, where lin-kv serves every request it holds and the loop of
\* Node::run hands every answer that arrived to the handler
SpecLogSendsFair ==
    /\ SpecLogSends
    /\ WF_vars(\E q \in net : LKvStep(q))
    /\ WF_vars(\E m \in net : LKvReply(m))

SpecGossip == InitGossip /\ [][NextGossip]_vars

SpecGCounter == InitGCounter /\ [][NextGCounter]_vars

SpecKafka == InitKafka /\ [][NextKafka]_vars

\* any of the three binaries, one node
InitServe == InitBroadcast \/ InitGCounter \/ InitKafka
NextServe == NextBroadcast \/ NextGCounter \/ NextKafka
SpecServe == InitServe /\ [][NextServe]_vars

\* the timer keeps firing at every node, and an envelope that stays in flight
\* is delivered
SpecGossipFair ==
    /\ SpecGossip
    /\ \A n \in GossipNodes : WF_vars(GTick(n))
    /\ WF_vars(\E m \in net : GDeliver(m))

(***************************************************************************)
(* Claims about the runtime.                                               *)
(***************************************************************************)
\* the envelopes whose line is complete on stdout, in the order written
Lines == SelectSeq(stdout, LAMBDA c : c.part = "nl")

RunReturned == pc["main"] \in {"ret_ok", "ret_err"}

\* C1: every envelope the node has written has src = the node id of the init
\* message and a msg_id >= 1 greater than the msg_id of every envelope written
\* before it; the first msg_id is 1 (so no msg_id is used twice).
C1_FreshMsgIds ==
    \A i \in 1..Len(Lines) :
        /\ Lines[i].env.src = initLine[1].node_id
        /\ Lines[i].env.msg_id # None
        /\ Lines[i].env.msg_id[1] >= 1
        /\ (i = 1 => Lines[i].env.msg_id[1] = 1)
        /\ \A j \in 1..(i - 1) : Lines[j].env.msg_id[1] < Lines[i].env.msg_id[1]

\* C1 witness: init_ok, a reply and a send_to have been written
C1_Witness ==
    /\ Len(Lines) >= 3
    /\ \E i \in 1..Len(Lines) : Lines[i].env.payload.type = "reply"
    /\ \E i \in 1..Len(Lines) : Lines[i].env.payload.type = "request"

\* C3: after init{node_id, node_ids} with msg_id i from s, the node holds
\* node_id and node_ids for the rest of the run, the first envelope on stdout
\* is init_ok with src = node_id, dest = s, msg_id = 1, in_reply_to = i, it is
\* complete before any event is handled, and no second init_ok is written.
C3_Handshake ==
    (initLine # None /\ initLine[1].kind = "init") =>
        /\ inner.id = initLine[1].node_id
        /\ inner.node_ids = initLine[1].node_ids
        /\ stdout # << >> =>
              stdout[1].env = [src |-> initLine[1].node_id, dest |-> initLine[1].src,
                               msg_id |-> Some(1), in_reply_to |-> initLine[1].msg_id,
                               payload |-> [type |-> "init_ok"]]
        /\ (dispatched > 0 \/ pc["event"] # "off" \/ Len(stdout) > 2) =>
              /\ Len(stdout) >= 2
              /\ stdout[2].part = "nl" /\ stdout[2].env = stdout[1].env
        /\ \A k \in 3..Len(stdout) : stdout[k].env.payload.type # "init_ok"

\* C3 witness: the handshake of n2 in a two-node cluster is over and the
\* handler has answered a message
C3_Witness ==
    /\ initLine # None /\ initLine[1].kind = "init" /\ initLine[1].node_id = "n2"
    /\ dispatched >= 1
    /\ Len(Lines) >= 2

\* C4: at most one handler invocation is in progress at any time, and only the
\* event thread is ever inside the handler.
C4_OneHandlerAtATime ==
    /\ Cardinality({t \in HandlerThreads : pc[t] = "handle"}) <= 1
    /\ \A t \in HandlerThreads : pc[t] = "handle" => t = "event"

\* C4 witness: a handler invocation is in progress while another event waits in
\* the queue and the forwarder holds a command
C4_Witness ==
    /\ pc["event"] = "handle"
    /\ eventQ # << >>
    /\ pc["cmd"] = "fwd"

\* C5: stdout is a sequence of whole lines, with at most one unfinished line
\* at its end: the JSON text of an envelope is directly followed by its own
\* newline.
C5_WholeLines ==
    \A k \in 1..Len(stdout) :
        /\ stdout[k].part = "json" => (k = 1 \/ stdout[k - 1].part = "nl")
        /\ stdout[k].part = "nl" =>
              /\ k > 1
              /\ stdout[k - 1].part = "json"
              /\ stdout[k - 1].env = stdout[k].env

\* C5 witness: two lines are complete and a third is half written while the
\* forwarder holds a command and main has input to read
C5_Witness ==
    /\ Len(stdout) >= 5
    /\ stdout[Len(stdout)].part = "json"
    /\ pc["cmd"] = "fwd"
    /\ stdin # << >>

\* C6: once a handler invocation has returned Err no event is dispatched any
\* more, and the run ends with an error whether or not stdin delivers
\* anything further (stated for the runs in which stdin is still open and
\* could deliver more).
C6_HandlerErrorAborts ==
    /\ [][herr => dispatched' = dispatched]_vars
    /\ ((herr /\ ~stdinClosed /\ nLines < MaxInput) ~> pc["main"] = "ret_err")

\* C7: once the input loop has seen the end of stdin, and no handler has
\* failed, run returns.
C7_StdinCloseTerminates ==
    (eofSeen /\ ~herr) ~> (RunReturned \/ herr)

(***************************************************************************)
(* Claims about replies.                                                   *)
(***************************************************************************)
\* the answer each request is given
AnswerOf ==
    [broadcast |-> "broadcast_ok", read |-> "read_ok", topology |-> "topology_ok",
     add |-> "add_ok", send |-> "send_ok", poll |-> "poll_ok",
     commit_offsets |-> "commit_offsets_ok",
     list_committed_offsets |-> "list_committed_offsets_ok"]
AnswerTypes == {AnswerOf[t] : t \in DOMAIN AnswerOf}

\* the requests an answer written by the last step can be for: the message
\* just handled, or a client request put off earlier
Answerable == reqs \cup (IF lastIn = None THEN {} ELSE {Req(lastIn[1])})

\* envelope e answers request q
Answers(e, q) ==
    /\ q.type \in DOMAIN AnswerOf
    /\ e.payload.type = AnswerOf[q.type]
    /\ e.dest = q.src
    /\ e.in_reply_to = q.msg_id

\* C2: every answer a node writes, at once or after a key-value service has
\* answered, is addressed to the sender of a request it answers and carries
\* that request's msg_id as in_reply_to; it is never addressed to a service
C2_RepliesCorrelate ==
    \A i \in 1..Len(lastOut) :
        lastOut[i].payload.type \in AnswerTypes =>
            /\ lastOut[i].dest \notin Services
            /\ \E q \in Answerable : Answers(lastOut[i], q)

\* a send_ok goes to the client while the message handled is lin-kv's write_ok
C2_Witness ==
    /\ lastIn # None
    /\ lastIn[1].src = LIN_KV_SERVICE_ID
    /\ \E i \in 1..Len(lastOut) :
          /\ lastOut[i].payload.type = "send_ok"
          /\ lastOut[i].dest \in Clients
          /\ \E q \in reqs : Answers(lastOut[i], q)

(***************************************************************************)
(* Claims about broadcast.                                                 *)
(***************************************************************************)
\* the last step handled a gossip at the node that is still running
GossipHandled(n) ==
    /\ wl = "broadcast"
    /\ lastIn # None
    /\ lastAt = n
    /\ up[n] = "ok"
    /\ lastIn[1].payload.type = "gossip"

\* C11: in the state a gossip has just led to, handling the same gossip from
\* the same peer once more leaves messages and others_know as they are
C11_GossipIdempotent ==
    \A n \in Cluster :
        GossipHandled(n) =>
            LET again == BHandle(handler[n], node[n], lastIn[1])
            IN /\ again.res = "ok"
               /\ again.h.messages = handler[n].messages
               /\ again.h.others_know = handler[n].others_know

\* a gossip with a value in it was handled, and the peer was already recorded
\* to know a value before it
C11_Witness ==
    \E n \in Cluster :
        /\ GossipHandled(n)
        /\ lastIn[1].payload.have = {1}
        /\ handler[n].others_know[lastIn[1].src] = {1, 2}
        /\ handler[n].messages = {1}

\* C8: no handled event removes a value from messages or from what a peer is
\* recorded to know
C8_OnlyGrows ==
    [][\A n \in Cluster :
          /\ handler[n].messages \subseteq handler'[n].messages
          /\ \A p \in DOMAIN handler[n].others_know :
                /\ p \in DOMAIN handler'[n].others_know
                /\ handler[n].others_know[p] \subseteq handler'[n].others_know[p]]_vars

\* C9: what a peer is recorded to know is part of the node's own messages
C9_OthersKnowSubset ==
    \A n \in Cluster :
        \A p \in DOMAIN handler[n].others_know : handler[n].others_know[p] \subseteq handler[n].messages

Accepted(v) == \E n \in Cluster : v \in handler[n].messages
Everywhere(v) == \A n \in Cluster : v \in handler[n].messages

\* C10: with the topology at every node of a connected cluster, the timer
\* firing at every node and the network delivering what it does not lose
\* within its budget, a state is always reached in which every value a node
\* has accepted is in messages of every node; and an accepted value stays
\* accepted, a value that is everywhere stays everywhere
C10_Convergence ==
    /\ (wl = "gossip" /\ TopologyEverywhere)
          ~> (\A v \in 1..MaxBroadcasts : Accepted(v) => Everywhere(v))
    /\ [][\A v \in 1..MaxBroadcasts : /\ (Accepted(v) => Accepted(v)')
                                       /\ (Everywhere(v) => Everywhere(v)')]_vars

\* a value is everywhere although the network lost an envelope
C10_Witness ==
    /\ wl = "gossip"
    /\ TopologyEverywhere
    /\ nLost > 0
    /\ \E v \in 1..MaxBroadcasts : Everywhere(v)

(***************************************************************************)
(* Claims about the g-counter.                                             *)
(***************************************************************************)
\* the request of a client that the answer e names
RequestOf(e) == CHOOSE q \in reqs : q.src = e.dest /\ q.msg_id = e.in_reply_to

RECURSIVE SumDeltas(_)
SumDeltas(S) ==
    IF S = {} THEN 0
    ELSE LET e == CHOOSE x \in S : TRUE
         IN RequestOf(e).payload.delta + SumDeltas(S \ {e})

\* the sum of the deltas of the adds answered with add_ok
AckedSum == SumDeltas({e \in sent : e.payload.type = "add_ok"})

\* the store was initialised, every request to seq-kv was answered and every
\* answer handled
CounterQuiet == wl = "counter-store" /\ nCmd = 1 /\ net = {}

\* C12: at quiescence the value stored under g-counter is the sum of the
\* deltas of the adds that were answered with add_ok
C12_CounterIsSum ==
    CounterQuiet => COUNTER_KEY \in DOMAIN kv /\ kv[COUNTER_KEY] = AckedSum

\* the InitStore command of main's thread has reached the handler: nothing of
\* it is left on the way from the thread to the event thread
InitStoreDispatched ==
    /\ pc["timer"] = "done"
    /\ commandQ = << >>
    /\ handling["cmd"] = None
    /\ \A i \in DOMAIN eventQ : eventQ[i].kind # "cmd"

\* C13: the event thread hands no message to the handler before it has handed
\* it the InitStore command, which is what emits the init CAS
C13_InitPrecedesTraffic ==
    (/\ cfg = "oneshot"
     /\ handling["event"] # None
     /\ handling["event"][1].kind = "msg") => InitStoreDispatched

(***************************************************************************)
(* Claims about the kafka log.                                             *)
(***************************************************************************)
\* the send_ok answers written so far, and the key each was sent to
SendOks == {e \in sent : e.payload.type = "send_ok"}
KeyOf(e) == RequestOf(e).payload.key

\* C14: every send_ok carries an offset of at least 1, and no two send_ok
\* answers for the same key carry the same offset, whichever nodes wrote them
C14_OffsetsUnique ==
    wl = "log-sends" =>
        /\ \A e \in SendOks : e.payload.offset >= 1
        /\ \A e1, e2 \in SendOks :
               (e1 # e2 /\ KeyOf(e1) = KeyOf(e2)) => e1.payload.offset # e2.payload.offset

\* two sends that overlapped, at different nodes, were both answered
C14_Witness ==
    /\ wl = "log-sends"
    /\ \E e1, e2 \in SendOks :
           /\ e1.src = "n1" /\ e2.src = "n2"
           /\ e1 \notin RequestOf(e2).after /\ e2 \notin RequestOf(e1).after
           /\ e1.payload.offset = 2 /\ e2.payload.offset = 1

\* the write requests for log entries that are on their way to lin-kv
EntryWrites == {q \in net : q.dest \in Services /\ q.payload.type = "write"}

\* C15: at most one write request is ever issued for an entry of the log: a
\* write on its way is the only one for its entry, and the entry is not stored
\* yet (a write leaves the network only by being served)
C15_OneWritePerEntry ==
    wl = "log-sends" =>
        \A q \in EntryWrites :
            /\ q.payload.key \notin DOMAIN kv
            /\ \A q2 \in EntryWrites : q2.payload.key = q.payload.key => q2 = q

\* the first entry of k1 is stored and the write of the second is on its way
C15_Witness ==
    /\ wl = "log-sends"
    /\ logged_msg_key("k1", 1) \in DOMAIN kv
    /\ \E q \in EntryWrites : q.payload.key = logged_msg_key("k1", 2)

\* the sends to the key k that arrived, and the send_ok answers for k
SendsTo(k) == {q \in reqs : q.type = "send" /\ q.payload.key = k}
SendOksFor(k) == {e \in SendOks : KeyOf(e) = k}

\* C16: once every request to lin-kv was served and every answer handled, the
\* n sends that arrived for a key that was new have n send_ok answers, which
\* carry the offsets 1..n, and the entries 1..n of the key are stored
C16_GapFree ==
    (wl = "log-sends" /\ net = {}) =>
        \A k \in Keys :
            LET n == Cardinality(SendsTo(k))
            IN /\ Cardinality(SendOksFor(k)) = n
               /\ {e.payload.offset : e \in SendOksFor(k)} = 1..n
               /\ \A i \in 1..n : logged_msg_key(k, i) \in DOMAIN kv

\* two sends to k1 that overlapped have been answered and nothing is in flight
C16_Witness ==
    /\ wl = "log-sends" /\ net = {}
    /\ \E e1, e2 \in SendOksFor("k1") :
           /\ e1 # e2
           /\ e1 \notin RequestOf(e2).after /\ e2 \notin RequestOf(e1).after

\* the poll_ok answers written so far
PollOks == {e \in sent : e.payload.type = "poll_ok"}

\* the pairs that the poll_ok e returns for the key k
Pairs(e, k) == IF k \in DOMAIN e.payload.msgs THEN Range(e.payload.msgs[k]) ELSE {}

\* C17: a poll that arrived after a send to k was answered with send_ok of
\* offset o, and that asks for k from f with f <= o <= f + 2, is answered
\* with the pair of o and the message sent
C17_SendThenPoll ==
    wl = "log-store" =>
        \A e \in PollOks : \A s \in SendOks \cap RequestOf(e).after :
            LET k == KeyOf(s)
                o == s.payload.offset
                offsets == RequestOf(e).payload.offsets
            IN (k \in DOMAIN offsets /\ offsets[k] <= o /\ o <= offsets[k] + 2) =>
                   << o, RequestOf(s).payload.msg >> \in Pairs(e, k)

PairwiseDisjoint(maps) ==
    \A i, j \in DOMAIN maps : i < j => DOMAIN maps[i] \cap DOMAIN maps[j] = {}

\* C19 as stated: no msg_id is a key of two of deltas and kv_msg_ids, or of
\* two of the six maps of the kafka handler
C19_AllDisjoint ==
    \A n \in Cluster :
        LET h == handler[n]
        IN /\ wl = "g-counter" => PairwiseDisjoint(<< h.deltas, h.kv_msg_ids >>)
           /\ wl = "kafka" =>
                  PairwiseDisjoint(<< h.send_msg_keys, h.poll_msg_keys, h.commit_msg_keys,
                                      h.committed_offset_reads, h.offset_reads,
                                      h.offset_updates >>)

\* C19, amended: the same, except that send_msg_keys holds the entry of a
\* send under the msg_id of its offset read or offset CAS, which is also a
\* key of offset_reads or of offset_updates
C19_DisjointButSend ==
    \A n \in Cluster :
        LET h == handler[n]
        IN /\ wl = "g-counter" => PairwiseDisjoint(<< h.deltas, h.kv_msg_ids >>)
           /\ wl = "kafka" =>
                  /\ PairwiseDisjoint(<< h.poll_msg_keys, h.commit_msg_keys,
                                         h.committed_offset_reads, h.offset_reads,
                                         h.offset_updates >>)
                  /\ PairwiseDisjoint(<< h.send_msg_keys, h.poll_msg_keys >>)
                  /\ PairwiseDisjoint(<< h.send_msg_keys, h.commit_msg_keys >>)
                  /\ PairwiseDisjoint(<< h.send_msg_keys, h.committed_offset_reads >>)
                  /\ DOMAIN h.offset_reads \cup DOMAIN h.offset_updates
                         \subseteq DOMAIN h.send_msg_keys

\* a send waits for its offset CAS while the reads of a poll are outstanding
C19_Witness ==
    /\ wl = "kafka"
    /\ \E n \in Cluster :
           /\ DOMAIN handler[n].offset_updates # {}
           /\ DOMAIN handler[n].offset_updates \subseteq DOMAIN handler[n].send_msg_keys
           /\ DOMAIN handler[n].poll_msg_keys # {}

(***************************************************************************)
(* Claims about errors of the key-value service.                           *)
(***************************************************************************)
\* the kafka handler at n has just handled an error answer whose code is
\* neither key-does-not-exist nor precondition-failed
UnexpectedError(n) ==
    /\ wl = "kafka" /\ lastIn # None /\ lastAt = n
    /\ lastIn[1].payload.type = "error"
    /\ lastIn[1].payload.code \notin {ERROR_KEY_DOES_NOT_EXIST, ERROR_PRECONDITION_FAILED}

\* the maps of the kafka handler that are keyed by the msg_id of a KV request
CorrelationKeys(h) ==
    DOMAIN h.send_msg_keys \cup DOMAIN h.poll_msg_keys \cup DOMAIN h.commit_msg_keys
    \cup DOMAIN h.committed_offset_reads \cup DOMAIN h.offset_reads
    \cup DOMAIN h.offset_updates

\* C20: after an error answer with an unexpected code the handler has
\* returned success, holds no correlation entry under the answer's
\* in_reply_to, and has written nothing
C20_UnexpectedErrorDropped ==
    \A n \in Cluster :
        UnexpectedError(n) =>
            /\ up[n] = "ok"
            /\ lastIn[1].in_reply_to[1] \notin CorrelationKeys(handler[n])
            /\ lastOut = << >>

(***************************************************************************)
(* Claims about what the broadcast handler sends.                          *)
(***************************************************************************)
\* C21: handling a gossip from a peer writes no envelope
C21_GossipSilent ==
    \A n \in Cluster : GossipHandled(n) => lastOut = << >>

\* the send_gossip command has just been handled at n
GossipSent(n) ==
    /\ wl = "broadcast" /\ lastIn # None /\ lastAt = n /\ up[n] = "ok"
    /\ lastIn[1].payload.type = "send_gossip"

\* the neighbours of n in the topology it was given
TopologyNeighbours(n) ==
    IF n \in DOMAIN handler[n].topology THEN Range(handler[n].topology[n]) ELSE {}

\* the envelopes of the last handler invocation that are addressed to p
LastOutTo(p) == {i \in DOMAIN lastOut : lastOut[i].dest = p}

\* C22: send_gossip sends to each neighbour that lacks something exactly one
\* gossip, with what it lacks, and nothing to anyone else
C22_GossipDelta ==
    \A n \in Cluster :
        GossipSent(n) =>
            /\ \A p \in TopologyNeighbours(n) :
                   LET delta == handler[n].messages \ handler[n].others_know[p]
                   IN IF delta = {}
                      THEN LastOutTo(p) = {}
                      ELSE /\ Cardinality(LastOutTo(p)) = 1
                           /\ \A i \in LastOutTo(p) :
                                  lastOut[i].payload = [type |-> "gossip", have |-> delta]
            /\ \A i \in DOMAIN lastOut : lastOut[i].dest \in TopologyNeighbours(n)

\* two neighbours, one of which has acknowledged a part, were both gossiped to
C22_Witness ==
    \E n \in Cluster :
        /\ GossipSent(n)
        /\ TopologyNeighbours(n) = {"n2", "n3"}
        /\ handler[n].messages = {1, 2}
        /\ handler[n].others_know["n2"] = {1}
        /\ Len(lastOut) = 2

\* C23: handling send_gossip leaves the handler's state as it is, and what a
\* node records as known by a peer changes only when a gossip or a gossip_ok
\* from that peer is handled, by what that message carries
C23_NoOptimisticUpdate ==
    /\ [][(\E n \in Cluster : GTick(n)) => handler' = handler]_vars
    /\ [][wl = "gossip" =>
            \A n \in Cluster : \A p \in DOMAIN handler[n].others_know :
                (handler'[n].others_know[p] # handler[n].others_know[p]) =>
                    \E m \in net :
                        /\ m.src = p /\ m.dest = n
                        /\ m.payload.type \in {"gossip", "gossip_ok"}
                        /\ handler'[n].others_know[p] =
                               handler[n].others_know[p] \cup m.payload.have]_vars

\* the only gossip sent so far was lost, and the same gossip is on its way
\* again: nobody but its sender holds a value yet
C23_Witness ==
    /\ wl = "gossip" /\ nLost = 1
    /\ \E m \in net :
           /\ m.payload.type = "gossip" /\ m.payload.have = {1}
           /\ \A n \in Cluster \ {m.src} : handler[n].messages = {}
           /\ handler[m.src].others_know[m.dest] = {}

(***************************************************************************)
(* Claims about the bookkeeping of the g-counter.                          *)
(***************************************************************************)
\* the requests of n to its key-value service that are not answered yet, or
\* whose answer n has not handled yet, by the msg_id of the request
Outstanding(n) ==
    {q.msg_id[1] : q \in {e \in net : e.src = n /\ e.dest \in Services}}
    \cup {a.in_reply_to[1] : a \in {e \in net : e.dest = n /\ e.src \in Services}}

\* the request of n with the msg_id k, where it is still on its way
RequestsWithId(n, k) == {e \in net : e.src = n /\ e.dest \in Services /\ e.msg_id = Some(k)}

\* C24: every entry of deltas is keyed by the msg_id of an outstanding request
\* of its add: a read of g-counter, or a CAS that adds the delta
C24_DeltaConserved ==
    wl = "counter-store" =>
        \A n \in Cluster : \A k \in DOMAIN handler[n].deltas :
            /\ k \in Outstanding(n)
            /\ \A q \in RequestsWithId(n, k) :
                   \/ q.payload = [type |-> "read", key |-> COUNTER_KEY]
                   \/ /\ q.payload.type = "cas" /\ q.payload.key = COUNTER_KEY
                      /\ q.payload.to = q.payload.from + handler[n].deltas[k]
                      /\ ~q.payload.create_if_not_exists

\* the g-counter handler at n has just handled an error answer whose code is
\* not precondition-failed
OtherError(n) ==
    /\ wl = "g-counter" /\ lastIn # None /\ lastAt = n
    /\ lastIn[1].payload.type = "error"
    /\ lastIn[1].payload.code # ERROR_PRECONDITION_FAILED

\* C25: after an error answer with a code other than 22 the handler has
\* returned success, has sent nothing, and holds no entry of deltas or
\* kv_msg_ids under the answer's in_reply_to
C25_OtherErrorDropped ==
    \A n \in Cluster :
        OtherError(n) =>
            /\ up[n] = "ok"
            /\ lastOut = << >>
            /\ lastIn[1].in_reply_to[1] \notin
                   DOMAIN handler[n].deltas \cup DOMAIN handler[n].kv_msg_ids

\* the step handles the message of type t at the g-counter node n
GHandles(n, t) ==
    /\ wl = "g-counter" /\ lastIn' # None /\ lastIn' # lastIn /\ lastAt' = n
    /\ lastIn'[1].payload.type = t

\* C26: a read of a client leads to a write of timestamp and then a read of
\* g-counter, both to seq-kv, to the entry of kv_msg_ids for the read, and to
\* nothing for the client; the read_ok for that read leads to one read_ok
\* with its value for the client, in reply to the client's read, removes the
\* entry, and leaves deltas alone
C26_ClientRead ==
    /\ [][\A n \in Cluster :
            (GHandles(n, "read") /\ lastIn'[1].src \in Clients) =>
                /\ up'[n] = "ok"
                /\ Len(lastOut') = 2
                /\ lastOut'[1].dest = SEQ_KV_SERVICE_ID
                /\ lastOut'[1].payload.type = "write" /\ lastOut'[1].payload.key = "timestamp"
                /\ lastOut'[2].dest = SEQ_KV_SERVICE_ID
                /\ lastOut'[2].payload = [type |-> "read", key |-> COUNTER_KEY]
                /\ lastOut'[1].msg_id[1] < lastOut'[2].msg_id[1]
                /\ handler'[n].kv_msg_ids =
                       MapInsert(handler[n].kv_msg_ids, lastOut'[2].msg_id[1],
                                 << lastIn'[1].src, lastIn'[1].msg_id[1] >>)
                /\ handler'[n].deltas = handler[n].deltas]_vars
    /\ [][\A n \in Cluster :
            (/\ GHandles(n, "read_ok")
             /\ lastIn'[1].in_reply_to[1] \in DOMAIN handler[n].kv_msg_ids) =>
                LET k == lastIn'[1].in_reply_to[1]
                    orig == handler[n].kv_msg_ids[k]
                IN /\ up'[n] = "ok"
                   /\ Len(lastOut') = 1
                   /\ lastOut'[1].dest = orig[1]
                   /\ lastOut'[1].in_reply_to = Some(orig[2])
                   /\ lastOut'[1].payload =
                          [type |-> "read_ok", value |-> lastIn'[1].payload.value]
                   /\ handler'[n].kv_msg_ids = MapRemove(handler[n].kv_msg_ids, k)
                   /\ handler'[n].deltas = handler[n].deltas]_vars

\* the read of c2 was answered with the value of seq-kv while the delta of
\* an add was waiting
C26_Witness ==
    /\ wl = "g-counter" /\ lastIn # None
    /\ lastIn[1].payload.type = "read_ok"
    /\ Len(lastOut) = 1 /\ lastOut[1].dest = "c2"
    /\ lastOut[1].payload = [type |-> "read_ok", value |-> 1]
    /\ \E n \in Cluster : DOMAIN handler[n].deltas # {} /\ handler[n].kv_msg_ids = << >>

(***************************************************************************)
(* Claims about the sends of the kafka log.                                *)
(***************************************************************************)
\* the step hands an answer of lin-kv of type t to the kafka handler at n
KHandles(n, t) ==
    /\ wl = "kafka" /\ lastIn' # None /\ lastIn' # lastIn /\ lastAt' = n
    /\ up[n] = "ok"
    /\ lastIn'[1].payload.type = t
    /\ lastIn'[1].in_reply_to # None

\* C27: after a precondition-failed answer to the offset CAS of a send, the
\* request that the handler sends next for the send is a read of the offset
\* of the key, and not another CAS
C27_RetryReads ==
    [][\A n \in Cluster :
          (/\ KHandles(n, "error")
           /\ lastIn'[1].payload.code = ERROR_PRECONDITION_FAILED
           /\ lastIn'[1].in_reply_to[1] \in DOMAIN handler[n].offset_updates
           /\ lastIn'[1].in_reply_to[1] \in DOMAIN handler[n].send_msg_keys)
          => /\ Len(lastOut') = 1
             /\ lastOut'[1].dest = LIN_KV_SERVICE_ID
             /\ lastOut'[1].payload.type = "read"
             /\ lastOut'[1].payload.key =
                    handler[n].offset_updates[lastIn'[1].in_reply_to[1]][1]]_vars

\* the send_ok answers to the request with msg_id i of the client c
SendOksTo(c, i) == {e \in SendOks : e.dest = c /\ e.in_reply_to = Some(i)}

\* the send_ok answers to the request q
SendOksOf(q) == {e \in SendOks : e.dest = q.src /\ e.in_reply_to = q.msg_id}

\* nothing is on its way and every send that arrived has its one send_ok
SendsAnswered == net = {} /\ \A q \in reqs : Cardinality(SendOksOf(q)) = 1

\* C28: when lin-kv answers every request, the sends that arrived are all
\* answered with one send_ok each and the traffic with lin-kv ends, however
\* the sends of the two clients for a key interleave; no send ever has a
\* second send_ok
C28_SendAnswered ==
    /\ <>[](wl = "log-sends" /\ SendsAnswered)
    /\ [](\A q \in reqs : Cardinality(SendOksOf(q)) <= 1)

\* the sends of the two clients to k1, at different nodes, were both answered
\* after lin-kv refused a CAS of n2: besides the read, the CAS, the write
\* and the send_ok, n2 took a msg_id for the second CAS
C28_Witness ==
    /\ wl = "log-sends" /\ net = {}
    /\ Cardinality(SendOksTo("c1", 40)) = 1 /\ Cardinality(SendOksTo("c2", 41)) = 1
    /\ \A e \in SendOks : e.src = (IF e.dest = "c1" THEN "n1" ELSE "n2") /\ KeyOf(e) = "k1"
    /\ node["n1"].msg_id = 6 /\ node["n2"].msg_id = 7

\* the SendEntry records of the send q: the node and the msg_id they are under
EntriesOf(q) ==
    UNION {{<< n, id >> : id \in {i \in DOMAIN handler[n].send_msg_keys :
                                     /\ handler[n].send_msg_keys[i].orig_msg_src = q.src
                                     /\ Some(handler[n].send_msg_keys[i].orig_msg_id) = q.msg_id}} :
           n \in Cluster}

\* the request of n to lin-kv with the msg_id id, or the answer to it, on its way
InFlight(n, id) ==
    {m \in net : \/ m.src = n /\ m.dest \in Services /\ m.msg_id = Some(id)
                 \/ m.dest = n /\ m.src \in Services /\ m.in_reply_to = Some(id)}

\* the requests that a send makes of lin-kv, for the key k
SendStage(m, k) ==
    IF m.src \in Services THEN TRUE
    ELSE \/ m.payload.type \in {"read", "cas"} /\ m.payload.key = offset_key(k)
         \/ m.payload.type = "write" /\ \E o \in 1..MaxReqs : m.payload.key = logged_msg_key(k, o)

\* C29: a send that arrived and has no send_ok yet has exactly one SendEntry,
\* under the msg_id of its one request to lin-kv that is outstanding (the read
\* of the offset, a CAS, or the write of the entry), with the client, the
\* msg_id, the key and the message of the send; a send that was answered has
\* none
C29_OneEntryPerSend ==
    wl = "log-sends" =>
        \A q \in reqs :
            IF SendOksOf(q) # {} THEN EntriesOf(q) = {}
            ELSE /\ Cardinality(EntriesOf(q)) = 1
                 /\ \A e \in EntriesOf(q) :
                        LET entry == handler[e[1]].send_msg_keys[e[2]]
                        IN /\ entry.key = q.payload.key
                           /\ entry.msg = q.payload.msg
                           /\ Cardinality(InFlight(e[1], e[2])) = 1
                           /\ \A m \in InFlight(e[1], e[2]) : SendStage(m, entry.key)

\* two sends are unanswered: the entry of one is under the msg_id of the write
\* of its log entry, the entry of the other under the msg_id of a second CAS
C29_Witness ==
    /\ wl = "log-sends"
    /\ \E q1, q2 \in reqs :
           /\ SendOksOf(q1) = {} /\ SendOksOf(q2) = {}
           /\ \E e \in EntriesOf(q1) : \E m \in InFlight(e[1], e[2]) :
                  m.dest \in Services /\ m.payload.type = "write"
           /\ \E e \in EntriesOf(q2) : \E m \in InFlight(e[1], e[2]) :
                  /\ m.dest \in Services /\ m.payload.type = "cas"
                  /\ m.payload.from = 1 /\ kv[offset_key(q2.payload.key)] = 1
                  /\ node[e[1]].msg_id = 5

\* the answers of lin-kv that the step hands to a handler
Handled == {m \in net \ net' : m.dest \in Cluster}

\* C30: a send_ok with the offset o is written only in the step that handles
\* the write_ok for the entry o of the key, and o is the "to" of the CAS
\* that lin-kv accepted for the send; so lin-kv holds the message of every
\* send under the offset that its send_ok carries
C30_SendOkAfterWrite ==
    /\ [](wl = "log-sends" =>
            /\ \A e \in SendOks :
                   /\ logged_msg_key(KeyOf(e), e.payload.offset) \in DOMAIN kv
                   /\ kv[logged_msg_key(KeyOf(e), e.payload.offset)] = RequestOf(e).payload.msg
            /\ \A q \in net :
                   (q.dest \in Services /\ q.payload.type = "cas") =>
                       /\ q.msg_id[1] \in DOMAIN handler[q.src].offset_updates
                       /\ handler[q.src].offset_updates[q.msg_id[1]] =
                              << q.payload.key, q.payload.to >>)
    /\ [][wl = "log-sends" =>
            /\ \A e \in SendOks' \ SendOks :
                   \E m \in Handled :
                       /\ m.payload.type = "write_ok" /\ m.dest = e.src
                       /\ m.in_reply_to[1] \in DOMAIN handler[e.src].send_msg_keys
                       /\ handler[e.src].send_msg_keys[m.in_reply_to[1]].offset = e.payload.offset
            /\ \A m \in Handled :
                   (/\ m.payload.type = "cas_ok"
                    /\ m.in_reply_to[1] \in DOMAIN handler[m.dest].send_msg_keys) =>
                       \E id \in DOMAIN handler'[m.dest].send_msg_keys :
                           /\ id \notin DOMAIN handler[m.dest].send_msg_keys
                           /\ handler'[m.dest].send_msg_keys[id].offset =
                                  handler[m.dest].offset_updates[m.in_reply_to[1]][2]
                           /\ \E w \in net' \ net :
                                  /\ w.msg_id = Some(id) /\ w.payload.type = "write"
                                  /\ w.payload.key =
                                         logged_msg_key(handler[m.dest].send_msg_keys[m.in_reply_to[1]].key,
                                                        handler'[m.dest].send_msg_keys[id].offset)]_vars

\* the send that lost the race for the offset 1 of k1 was answered with the
\* offset 2, and lin-kv holds the messages of both sends
C30_Witness ==
    /\ wl = "log-sends"
    /\ \E e1, e2 \in SendOksFor("k1") :
           /\ e1.payload.offset = 1 /\ e2.payload.offset = 2
           /\ e2 \notin RequestOf(e1).after /\ e1 \notin RequestOf(e2).after
           /\ kv[logged_msg_key("k1", 1)] = RequestOf(e1).payload.msg
           /\ kv[logged_msg_key("k1", 2)] = RequestOf(e2).payload.msg
           /\ RequestOf(e1).payload.msg # RequestOf(e2).payload.msg

(***************************************************************************)
(* Claims about polls, commits and lists of the kafka log.                 *)
(***************************************************************************)
\* the answers of the type t to the request q
AnswersTo(q, t) ==
    {e \in sent : e.payload.type = t /\ e.dest = q.src /\ e.in_reply_to = q.msg_id}

\* the reads of the poll q for the key that the handler h still waits for
PollReads(h, q, key) ==
    {i \in DOMAIN h.poll_msg_keys :
        /\ h.poll_msg_keys[i].orig_msg_src = q.src
        /\ Some(h.poll_msg_keys[i].orig_msg_id) = q.msg_id
        /\ h.poll_msg_keys[i].key = key}

\* the key of the poll q is complete: msgs holds three messages of it, or one
\* of its three reads was answered otherwise than with a message
KeyComplete(h, q, key, msgs) ==
    \/ Len(msgs[key]) >= NUM_POLLED_MESSAGES
    \/ Cardinality(PollReads(h, q, key)) + Len(msgs[key]) < NUM_POLLED_MESSAGES

\* C31: a step that writes a poll_ok leaves every key of the poll complete
\* and the aggregator of the poll removed, and no poll has two poll_ok
C31_PollCompletion ==
    /\ [][wl = "log-polls" =>
            \A e \in PollOks' \ PollOks :
                LET q == CHOOSE r \in reqs' : r.src = e.dest /\ r.msg_id = e.in_reply_to
                IN /\ DOMAIN e.payload.msgs = DOMAIN q.payload.offsets
                   /\ \A key \in DOMAIN q.payload.offsets :
                          KeyComplete(handler'[e.src], q, key, e.payload.msgs)
                   /\ RequestKey(q.src, q.msg_id[1]) \notin
                          DOMAIN handler'[e.src].polled_messages]_vars
    /\ [](wl = "log-polls" => \A q \in reqs : Cardinality(AnswersTo(q, "poll_ok")) <= 1)

\* a poll for k1 and k2 was answered with three messages of k1 and the one
\* message of k2, and every answer of lin-kv was handled
C31_Witness ==
    /\ wl = "log-polls" /\ net = {}
    /\ \E e \in PollOks :
           /\ DOMAIN e.payload.msgs = Keys
           /\ Len(e.payload.msgs["k1"]) = 3 /\ Len(e.payload.msgs["k2"]) = 1

\* the answer m of lin-kv is for a read of a poll whose aggregator is gone
LatePollAnswer(m) ==
    /\ m.in_reply_to # None
    /\ m.in_reply_to[1] \in DOMAIN handler[m.dest].poll_msg_keys
    /\ LET entry == handler[m.dest].poll_msg_keys[m.in_reply_to[1]]
       IN /\ RequestKey(entry.orig_msg_src, entry.orig_msg_id) \notin
                 DOMAIN handler[m.dest].polled_messages
          /\ \E e \in PollOks : e.dest = entry.orig_msg_src
                                /\ e.in_reply_to = Some(entry.orig_msg_id)

\* C32: a key-does-not-exist answer to a read of a poll that was answered
\* and whose aggregator is gone only removes the entry of the read from
\* poll_msg_keys: nothing is written, no aggregator changes, and the handler
\* returns Ok
C32_LateKeyMissing ==
    [][wl = "log-polls" =>
          \A m \in Handled :
              (/\ m.payload.type = "error"
               /\ m.payload.code = ERROR_KEY_DOES_NOT_EXIST
               /\ LatePollAnswer(m))
              => /\ net' = net \ {m}
                 /\ sent' = sent
                 /\ up'[m.dest] = "ok"
                 /\ handler'[m.dest] =
                        [handler[m.dest] EXCEPT !.poll_msg_keys = MapRemove(@, m.in_reply_to[1])]]_vars

\* the poll for k2 from offset 2 was answered when the first of its reads
\* found no key, and the answers to the other two reads were handled
C32_Witness ==
    /\ wl = "log-polls" /\ net = {} /\ nReq = 1
    /\ up["n1"] = "ok"
    /\ handler["n1"].poll_msg_keys = << >>
    /\ \E e \in PollOks : DOMAIN e.payload.msgs = {"k2"} /\ e.payload.msgs["k2"] = << >>

\* the commit_offsets requests with at least one key
Commits == {q \in reqs : q.type = "commit_offsets" /\ DOMAIN q.payload.offsets # {}}

\* the writes of the commit q that the handler h still waits for
CommitWrites(h, q) ==
    {i \in DOMAIN h.commit_msg_keys :
        /\ h.commit_msg_keys[i].orig_msg_src = q.src
        /\ Some(h.commit_msg_keys[i].orig_msg_id) = q.msg_id}

\* the writes that all nodes together still wait for on behalf of q
OpenWrites(q) == UNION {{<< n, i >> : i \in CommitWrites(handler[n], q)} : n \in Cluster}

\* the keys of the commit q whose write is on its way to lin-kv, served or not
WritesOnTheWay(q) ==
    {key \in DOMAIN q.payload.offsets :
        \E e \in OpenWrites(q) :
            /\ handler[e[1]].commit_msg_keys[e[2]].key = key
            /\ \E m \in InFlight(e[1], e[2]) :
                   m.dest \in Services =>
                       /\ m.payload.type = "write"
                       /\ m.payload.key = committed_offset_key(key)
                       /\ m.payload.value = q.payload.offsets[key]}

\* C33: a commit of n >= 1 offsets has one write per key, each waited for
\* under its own msg_id with one message on its way; it has no
\* commit_offsets_ok while a write is waited for and exactly one from the
\* step that handles the last write_ok on, whatever other commits are open
C33_CommitAcks ==
    wl = "log-commits" =>
        \A q \in Commits :
            /\ Cardinality(AnswersTo(q, "commit_offsets_ok")) =
                   (IF OpenWrites(q) = {} THEN 1 ELSE 0)
            /\ Cardinality(OpenWrites(q)) = Cardinality(WritesOnTheWay(q))
            /\ \A e \in OpenWrites(q) : Cardinality(InFlight(e[1], e[2])) = 1
            /\ \A key \in (DOMAIN q.payload.offsets) \ WritesOnTheWay(q) :
                   committed_offset_key(key) \in DOMAIN kv

\* two commits of two offsets each were open at once, at different nodes, and
\* both were answered
C33_Witness ==
    /\ wl = "log-commits" /\ net = {}
    /\ \E q1, q2 \in Commits :
           /\ q1.src = "c1" /\ q2.src = "c2"
           /\ DOMAIN q1.payload.offsets = Keys /\ DOMAIN q2.payload.offsets = Keys
           /\ q2.after = {} /\ q1.after = {}
           /\ \E e1 \in AnswersTo(q1, "commit_offsets_ok"),
                 e2 \in AnswersTo(q2, "commit_offsets_ok") : e1.src # e2.src

\* the list_committed_offsets requests with at least one key, and the
\* list_committed_offsets_ok answers to one
Lists == {q \in reqs : q.type = "list_committed_offsets" /\ q.payload.keys # << >>}
ListOks(q) == AnswersTo(q, "list_committed_offsets_ok")

\* the reads of the list q that some node still waits for
OpenReads(q) ==
    UNION {{<< n, i >> : i \in {j \in DOMAIN handler[n].committed_offset_reads :
                                   /\ handler[n].committed_offset_reads[j].orig_msg_src = q.src
                                   /\ Some(handler[n].committed_offset_reads[j].orig_msg_id) = q.msg_id}} :
           n \in Cluster}

\* a commit of the key was acknowledged to its client before q arrived
CommittedBefore(q, key) ==
    \E e \in q.after :
        /\ e.payload.type = "commit_offsets_ok"
        /\ key \in DOMAIN RequestOf(e).payload.offsets

\* C34: a list whose keys were all committed before it arrived has no answer
\* while one of its reads is open and exactly one afterwards, with exactly
\* the requested keys; every offset in an answer is the value that the read
\* of its key returned; no answer names a key that lin-kv does not hold
C34_ListAnswered ==
    /\ [](wl = "log-commits" =>
            \A q \in Lists :
                /\ \A e \in ListOks(q) : \A key \in DOMAIN e.payload.offsets :
                       /\ key \in Range(q.payload.keys)
                       /\ committed_offset_key(key) \in DOMAIN kv
                /\ (\A key \in Range(q.payload.keys) : CommittedBefore(q, key)) =>
                       /\ Cardinality(ListOks(q)) = (IF OpenReads(q) = {} THEN 1 ELSE 0)
                       /\ \A e \in ListOks(q) :
                              DOMAIN e.payload.offsets = Range(q.payload.keys))
    /\ [][wl = "log-commits" =>
            \A m \in Handled :
                (/\ m.payload.type = "read_ok"
                 /\ m.in_reply_to[1] \in DOMAIN handler[m.dest].committed_offset_reads) =>
                    LET entry == handler[m.dest].committed_offset_reads[m.in_reply_to[1]]
                        k == RequestKey(entry.orig_msg_src, entry.orig_msg_id)
                        old == handler[m.dest].list_committed_offsets[k].offsets
                        new == IF k \in DOMAIN handler'[m.dest].list_committed_offsets
                               THEN {handler'[m.dest].list_committed_offsets[k].offsets}
                               ELSE {e.payload.offsets : e \in sent' \ sent}
                    IN /\ Cardinality(new) = 1
                       /\ \A o \in new :
                              /\ DOMAIN o = DOMAIN old \cup {entry.key}
                              /\ o[entry.key] = m.payload.value
                              /\ \A key \in DOMAIN old \ {entry.key} : o[key] = old[key]]_vars

\* the offsets 1 of k1 and 2 of k2 were committed, and the list of k1 and k2
\* that arrived afterwards was answered with them
C34_Witness ==
    /\ wl = "log-commits"
    /\ \E q \in Lists :
           /\ q.payload.keys = << "k1", "k2" >>
           /\ \A key \in Keys : CommittedBefore(q, key)
           /\ \E e \in ListOks(q) : e.payload.offsets = [key \in Keys |-> IF key = "k1" THEN 1 ELSE 2]

\* the correlation maps and the aggregators of a KafkaLog
KafkaMaps(h) ==
    << h.send_msg_keys, h.offset_reads, h.offset_updates, h.poll_msg_keys,
       h.polled_messages, h.commit_msg_keys, h.committed_offset_reads,
       h.committed_offsets_written, h.list_committed_offsets >>

\* n sent a request to lin-kv; every request was answered and every answer
\* was handled
AllAnswered(n) ==
    /\ node[n].msg_id > InnerAfterInit(n, << >>).msg_id
    /\ \A m \in net : m.src # n /\ m.dest # n

\* C35: a kafka node whose requests to lin-kv were all answered, with all
\* the answers handled, holds no correlation entry and no aggregator
C35_NothingKept ==
    wl = "log-commits" =>
        \A n \in Cluster :
            AllAnswered(n) => \A i \in 1..Len(KafkaMaps(handler[n])) :
                                  KafkaMaps(handler[n])[i] = << >>

\* C36: the handler returns Ok on every answer to a read of a poll, also on
\* a read_ok that arrives when the poll was answered and its aggregator is
\* gone, in whatever order the answers to the reads of the poll arrive
C36_LateReadOk ==
    [][wl = "log-polls" =>
          \A m \in Handled :
              (/\ m.payload.type \in {"read_ok", "error"}
               /\ m.in_reply_to[1] \in DOMAIN handler[m.dest].poll_msg_keys)
              => up'[m.dest] = "ok"]_vars

\* the offset that the reads of a poll start at
StartOffset(o) == IF o = 0 THEN 1 ELSE o

\* C37: the pairs that a poll_ok lists for a key carry the offsets from the
\* requested one on, one after the other, in whatever order the answers of
\* lin-kv arrived
C37_PollOrdered ==
    wl = "log-polls" =>
        \A e \in PollOks : \A key \in DOMAIN e.payload.msgs :
            \A i \in 1..Len(e.payload.msgs[key]) :
                e.payload.msgs[key][i][1] =
                    StartOffset(RequestOf(e).payload.offsets[key]) + i - 1

\* the commits and lists that name no key
EmptyRequests ==
    {q \in reqs : \/ q.type = "commit_offsets" /\ DOMAIN q.payload.offsets = {}
                  \/ q.type = "list_committed_offsets" /\ q.payload.keys = << >>}

\* the request q has its answer, and no node keeps an aggregator for it
AnsweredAndGone(q) ==
    /\ \E e \in sent :
           /\ e.dest = q.src /\ e.in_reply_to = q.msg_id
           /\ e.payload.type = AnswerOf[q.type]
           /\ q.type = "list_committed_offsets" => e.payload.offsets = << >>
    /\ \A n \in Cluster :
           /\ RequestKey(q.src, q.msg_id[1]) \notin DOMAIN handler[n].committed_offsets_written
           /\ RequestKey(q.src, q.msg_id[1]) \notin DOMAIN handler[n].list_committed_offsets

\* C38: a commit_offsets without offsets and a list_committed_offsets without
\* keys are answered in the end, the list with an empty map, and no
\* aggregator is left for them
C38_EmptyAnswered ==
    <>[](wl = "log-commits" /\ \A q \in EmptyRequests : AnsweredAndGone(q))

\* C39: no list_committed_offsets request has two answers, whether its keys
\* are committed or not and in whatever order the answers of lin-kv arrive
C39_OneListAnswer ==
    wl = "log-commits" =>
        \A q \in reqs : q.type = "list_committed_offsets" => Cardinality(ListOks(q)) <= 1

\* the value that lin-kv holds under the key in the store s, 0 for none
StoredOffset(s, key) == IF key \in DOMAIN s THEN s[key] ELSE 0

\* the CAS requests that lin-kv serves in the step
CasServed == {q \in net \ net' : q.dest \in Services /\ q.payload.type = "cas"}

\* C40: when lin-kv applies a CAS of a send, its from is at most the offset
\* stored for the key and its to is from + 1; the stored offset stays, or
\* grows by one when the CAS is accepted
C40_NoOvershoot ==
    [][wl = "log-sends" =>
          \A q \in CasServed :
              LET old == StoredOffset(kv, q.payload.key)
                  new == StoredOffset(kv', q.payload.key)
              IN /\ q.payload.from <= old
                 /\ q.payload.to = q.payload.from + 1
                 /\ new = (IF \E m \in net' \ net : m.in_reply_to = q.msg_id
                                                   /\ m.payload.type = "cas_ok"
                           THEN old + 1 ELSE old)
                 /\ \A key \in DOMAIN kv : kv'[key] >= kv[key]]_vars

\* lin-kv accepted the second CAS of a send, from 1 to 2: the first was
\* refused because the send of the other client moved the offset
C40_Witness ==
    /\ wl = "log-sends"
    /\ StoredOffset(kv, offset_key("k1")) = 2
    /\ \E m \in net :
           /\ m.payload.type = "cas_ok" /\ m.in_reply_to = Some(4)
           /\ node[m.dest].msg_id = 5
           /\ DOMAIN handler[m.dest].send_msg_keys = {4}
           /\ DOMAIN handler[m.dest].offset_updates = {4}
           /\ handler[m.dest].offset_updates[4] = << offset_key("k1"), 2 >>

=============================================================================
